---- MODULE Spec2Model ----
(***************************************************************************)
(* State-transition core of the Demiurge chain: the key-value State, the   *)
(* runtime dispatcher and the bank_cgt, avatars_profiles and nft_dgen      *)
(* modules.                                                                *)
(*                                                                         *)
(* Scaling.  A u64 is modelled by 0..U64Max, so U64Max stands for          *)
(* u64::MAX and a checked addition fails when the sum exceeds it.  An      *)
(* Address [b; 32] is modelled by its repeated byte b.  A byte string is   *)
(* a sequence of fields: a key is its literal prefix followed by the       *)
(* fixed-width fields appended to it, a bincode value is the sequence of   *)
(* the fields bincode writes.                                              *)
(***************************************************************************)
EXTENDS Integers, Sequences, FiniteSets, TLC

VARIABLES
    state,            \* State.backend (InMemoryBackend.inner): key -> value
    last,             \* the last operation: its input, result and pre-state
    hist,             \* history: what has succeeded so far
    steps,            \* number of operations run (bounded specification)
    overflow_checks,  \* build profile: TRUE = debug (overflow panics)
    node              \* Node: mempool, the two mutexes and the threads

vars == <<state, last, hist, steps, overflow_checks, node>>

---------------------------------------------------------------------------
(* Bounds *)

U64Max == 2
MaxSteps == 3

---------------------------------------------------------------------------
(* Addresses and options *)

ZERO_ADDRESS == 0
USER_ADDRESS == 1
GENESIS_ARCHON_ADDRESS == 170
\* 1_000_000 on the scale on which U64Max stands for u64::MAX
GENESIS_ARCHON_INITIAL_BALANCE == 1

Address == {ZERO_ADDRESS, USER_ADDRESS, GENESIS_ARCHON_ADDRESS}

None == <<>>
Some(x) == <<x>>

U64 == 0..U64Max

checked_add(a, b) == IF a + b > U64Max THEN None ELSE Some(a + b)

---------------------------------------------------------------------------
(* core/state.rs: InMemoryBackend behind State *)

EmptyState == [k \in {} |-> <<>>]

get_raw(st, key) == IF key \in DOMAIN st THEN Some(st[key]) ELSE None

put_raw_insert_only(st, key, value) ==
    [k \in (DOMAIN st) \cup {key} |-> IF k \in DOMAIN st THEN st[k] ELSE value]
put_raw(st, key, value) ==
    [k \in (DOMAIN st) \cup {key} |-> IF k = key THEN value ELSE st[k]]

---------------------------------------------------------------------------
(* Results: Ok(()) / Err(message) / a panic *)

Ok == <<"Ok">>
Err(msg) == <<"Err", msg>>
ErrInvalidNonce_swapped(expected, got) == <<"Err", "invalid nonce", got, expected>>
ErrInvalidNonce(expected, got) == <<"Err", "invalid nonce", expected, got>>
Panic(msg) == <<"Panic", msg>>

Ret(res, st) == [res |-> res, st |-> st]

IsOk(res) == res = Ok

---------------------------------------------------------------------------
(* bincode of the values the modules store and of the payloads they read *)

serialize_u64(n) == <<n>>
deserialize_u64(bytes) == IF Len(bytes) >= 1 THEN Some(bytes[1]) ELSE None

\* TransferParams {to, amount} and MintToParams {to, amount}
serialize_params(to, amount) == <<to, amount>>
deserialize_params(bytes) ==
    IF Len(bytes) >= 2 THEN Some([to |-> bytes[1], amount |-> bytes[2]]) ELSE None

---------------------------------------------------------------------------
(* runtime/bank_cgt.rs *)

PREFIX_BALANCE == "bank:balance:"
PREFIX_NONCE == "bank:nonce:"

balance_key(address) == <<PREFIX_BALANCE, address>>
nonce_key(address) == <<PREFIX_NONCE, address>>

\* .and_then(deserialize).unwrap_or(0)
u64_or_zero(raw) ==
    IF raw = None THEN 0
    ELSE LET v == deserialize_u64(raw[1]) IN IF v = None THEN 0 ELSE v[1]

get_balance(st, addr) == u64_or_zero(get_raw(st, balance_key(addr)))

set_balance(st, addr, amount) == put_raw(st, balance_key(addr), serialize_u64(amount))

get_nonce(st, addr) == u64_or_zero(get_raw(st, nonce_key(addr)))

set_nonce(st, addr, nonce) == put_raw(st, nonce_key(addr), serialize_u64(nonce))

get_balance_cgt(st, addr) == get_balance(st, addr)

\* amount + fee, checked
TransferTotal_wrapping(amount, fee) == Some((amount + fee) % (U64Max + 1))
TransferTotal(amount, fee) == checked_add(amount, fee)

InsufficientBalance_never(from_balance, total) == FALSE
InsufficientBalance(from_balance, total) == from_balance < total

\* The values handle_transfer writes once every check has passed.
TransferWrites(st, from, to, from_balance, to_balance) ==
    set_balance(set_balance(st, from, from_balance), to, to_balance)

\* `current_nonce + 1` is a plain addition: past u64::MAX it panics when the
\* build checks overflow (after both balances are written) and wraps otherwise.
TransferNonce_skip(st, from, current_nonce, oc) == Ret(Ok, st)
TransferNonce(st, from, current_nonce, oc) ==
    IF current_nonce + 1 > U64Max
    THEN IF oc THEN Ret(Panic("attempt to add with overflow"), st)
         ELSE Ret(Ok, set_nonce(st, from, (current_nonce + 1) % (U64Max + 1)))
    ELSE Ret(Ok, set_nonce(st, from, current_nonce + 1))

\* "Simple nonce check"
NonceMatches_any(tx_nonce, current_nonce) == TRUE
NonceMatches(tx_nonce, current_nonce) == tx_nonce = current_nonce

handle_transfer(tx, st, oc) ==
    LET params == deserialize_params(tx.payload) IN
    IF params = None THEN Ret(Err("bincode"), st)
    ELSE
    LET to == params[1].to
        amount == params[1].amount
        current_nonce == get_nonce(st, tx.from)
    IN
    IF ~NonceMatches(tx.nonce, current_nonce)
    THEN Ret(ErrInvalidNonce(current_nonce, tx.nonce), st)
    ELSE
    LET from_balance == get_balance(st, tx.from)
        to_balance == get_balance(st, to)
        total == TransferTotal(amount, tx.fee)
    IN
    IF total = None THEN Ret(Err("overflow"), st)
    ELSE IF InsufficientBalance(from_balance, total[1])
    THEN Ret(Err("insufficient balance for amount + fee"), st)
    ELSE
    LET new_to == checked_add(to_balance, amount) IN
    IF new_to = None THEN Ret(Err("overflow on recipient"), st)
    ELSE TransferNonce(
            TransferWrites(st, tx.from, to, from_balance - total[1], new_to[1]),
            tx.from, current_nonce, oc)

IsGenesisAuthority_anyone(from) == TRUE
IsGenesisAuthority(from) == from = ZERO_ADDRESS

\* current.checked_add(params.amount)
MintToBalance_overwrite(current, amount) == Some(amount)
MintToBalance(current, amount) == checked_add(current, amount)

handle_mint_to(tx, st) ==
    IF ~IsGenesisAuthority(tx.from)
    THEN Ret(Err("mint_to can only be called by genesis authority (all-zero address)"), st)
    ELSE
    LET params == deserialize_params(tx.payload) IN
    IF params = None THEN Ret(Err("bincode"), st)
    ELSE
    LET current == get_balance(st, params[1].to)
        new_balance == MintToBalance(current, params[1].amount)
    IN
    IF new_balance = None THEN Ret(Err("overflow on mint_to"), st)
    ELSE Ret(Ok, set_balance(st, params[1].to, new_balance[1]))

bank_cgt_dispatch(call_id, tx, st, oc) ==
    CASE call_id = "transfer" -> handle_transfer(tx, st, oc)
      [] call_id = "mint_to" -> handle_mint_to(tx, st)
      [] OTHER -> Ret(Err("bank_cgt: unknown call_id"), st)

---------------------------------------------------------------------------
(* runtime/avatars_profiles.rs: the Archon flag *)

PREFIX_ARCHON_FLAG == "avatars:archon:"

archon_flag_key(address) == <<PREFIX_ARCHON_FLAG, address>>

is_archon(st, addr) ==
    LET raw == get_raw(st, archon_flag_key(addr)) IN
    IF raw = None THEN FALSE ELSE raw[1] = <<1>>

set_archon_flag_in_bank(st, addr, value) ==
    put_raw(st, balance_key(addr), IF value THEN <<1>> ELSE <<0>>)
set_archon_flag_false(st, addr, value) ==
    put_raw(st, archon_flag_key(addr), <<0>>)
set_archon_flag(st, addr, value) ==
    put_raw(st, archon_flag_key(addr), IF value THEN <<1>> ELSE <<0>>)

handle_claim_archon_nonce_checked(tx, st) ==
    IF tx.nonce # get_nonce(st, tx.from)
    THEN Ret(ErrInvalidNonce(get_nonce(st, tx.from), tx.nonce), st)
    ELSE Ret(Ok, set_archon_flag(st, tx.from, TRUE))
handle_claim_archon(tx, st) == Ret(Ok, set_archon_flag(st, tx.from, TRUE))

avatars_profiles_dispatch(call_id, tx, st) ==
    CASE call_id = "claim_archon" -> handle_claim_archon(tx, st)
      [] OTHER -> Ret(Err("avatars_profiles: unknown call_id"), st)

---------------------------------------------------------------------------
(* runtime/avatars_profiles.rs: Aeon profiles *)

\* The profile counters are u64 and the level is u32. They are modelled on a
\* finer scale than the balances, so that ASCENSION_STEP divides, a level
\* above 1 fits, and a quotient can reach and pass u32::MAX:
\* ProfileU64Max stands for u64::MAX, U32Max for u32::MAX.
ProfileU64Max == 6
U32Max == 2
ASCENSION_STEP == 2
LUMINARY_SYZYGY_THRESHOLD == 3

ProfileU64 == 0..ProfileU64Max

PREFIX_AEON_PROFILE == "aeon/profile:"

aeon_profile_key(address) == <<PREFIX_AEON_PROFILE, address>>

\* u64::checked_add and u64::checked_mul on the profile scale
profile_checked_add(a, b) == IF a + b > ProfileU64Max THEN None ELSE Some(a + b)
profile_checked_mul(a, b) == IF a * b > ProfileU64Max THEN None ELSE Some(a * b)

\* struct AeonProfile, and its bincode form: field by field in declaration
\* order
AeonProfile(address, display_name, bio, gnosis_xp, syzygy_score, ascension_level, badges, created_at_height) ==
    [address |-> address, display_name |-> display_name, bio |-> bio,
     gnosis_xp |-> gnosis_xp, syzygy_score |-> syzygy_score,
     ascension_level |-> ascension_level, badges |-> badges,
     created_at_height |-> created_at_height]

serialize_profile(p) ==
    <<p.address, p.display_name, p.bio, p.gnosis_xp, p.syzygy_score,
      p.ascension_level, p.badges, p.created_at_height>>

deserialize_profile(bytes) ==
    IF Len(bytes) = 8
    THEN Some(AeonProfile(bytes[1], bytes[2], bytes[3], bytes[4], bytes[5],
                          bytes[6], bytes[7], bytes[8]))
    ELSE None

load_aeon_profile(st, address) ==
    LET raw == get_raw(st, aeon_profile_key(address)) IN
    IF raw = None THEN None ELSE deserialize_profile(raw[1])

store_aeon_profile(st, profile) ==
    put_raw(st, aeon_profile_key(profile.address), serialize_profile(profile))

get_aeon_profile(st, address) == load_aeon_profile(st, address)

\* the profile create_aeon_profile builds
FreshProfile_height_zero(address, display_name, bio, current_height) ==
    AeonProfile(address, display_name, bio, 0, 0, 1, <<>>, 0)
FreshProfile(address, display_name, bio, current_height) ==
    AeonProfile(address, display_name, bio, 0, 0, 1, <<>>, current_height)

\* returns the profile as well: Ok(profile)
create_aeon_profile(st, address, display_name, bio, current_height) ==
    IF load_aeon_profile(st, address) # None
    THEN [res |-> Err("Aeon profile already exists for this address"),
          st |-> st, profile |-> None]
    ELSE LET profile == FreshProfile(address, display_name, bio, current_height) IN
         [res |-> Ok, st |-> store_aeon_profile(st, profile),
          profile |-> Some(profile)]

ProfileNotFound == Err("Aeon profile not found")

\* the profile after add_gnosis_xp has added sum to it
WithGnosisXp_both(profile, sum) ==
    [profile EXCEPT !.gnosis_xp = sum, !.syzygy_score = sum]
WithGnosisXp(profile, sum) == [profile EXCEPT !.gnosis_xp = sum]

add_gnosis_xp(st, address, amount) ==
    LET loaded == load_aeon_profile(st, address) IN
    IF loaded = None THEN Ret(ProfileNotFound, st)
    ELSE LET sum == profile_checked_add(loaded[1].gnosis_xp, amount) IN
         IF sum = None THEN Ret(Err("Gnosis XP overflow"), st)
         ELSE Ret(Ok, store_aeon_profile(st, WithGnosisXp(loaded[1], sum[1])))

add_syzygy_score(st, address, amount) ==
    LET loaded == load_aeon_profile(st, address) IN
    IF loaded = None THEN Ret(ProfileNotFound, st)
    ELSE LET sum == profile_checked_add(loaded[1].syzygy_score, amount) IN
         IF sum = None THEN Ret(Err("Syzygy Score overflow"), st)
         ELSE Ret(Ok, store_aeon_profile(st,
                          [loaded[1] EXCEPT !.syzygy_score = sum[1]]))

\* (total_score / ASCENSION_STEP) as u32: the cast keeps the low 32 bits
quotient_as_u32(total_score) == (total_score \div ASCENSION_STEP) % (U32Max + 1)

\* 1 + q in u32: with overflow checks the addition panics when it passes
\* u32::MAX, without them it wraps. None stands for the panic.
one_plus_u32(q, oc) ==
    IF 1 + q > U32Max
    THEN (IF oc THEN None ELSE Some((1 + q) % (U32Max + 1)))
    ELSE Some(1 + q)

recompute_ascension(st, address, oc) ==
    LET loaded == load_aeon_profile(st, address) IN
    IF loaded = None THEN Ret(ProfileNotFound, st)
    ELSE
    LET syzygy_weighted == profile_checked_mul(loaded[1].syzygy_score, 2) IN
    IF syzygy_weighted = None
    THEN Ret(Err("Syzygy score multiplication overflow"), st)
    ELSE
    LET total_score == profile_checked_add(loaded[1].gnosis_xp, syzygy_weighted[1]) IN
    IF total_score = None THEN Ret(Err("Total score overflow"), st)
    ELSE
    LET level == one_plus_u32(quotient_as_u32(total_score[1]), oc) IN
    IF level = None THEN Ret(Panic("attempt to add with overflow"), st)
    ELSE Ret(Ok, store_aeon_profile(st,
                     [loaded[1] EXCEPT !.ascension_level = level[1]]))

has_luminary(badges) == \E i \in 1..Len(badges) : badges[i] = "Luminary"

\* the badge list update_badges stores
UpdatedBadges_always(profile) == Append(profile.badges, "Luminary")
UpdatedBadges(profile) ==
    IF profile.syzygy_score >= LUMINARY_SYZYGY_THRESHOLD
       /\ ~has_luminary(profile.badges)
    THEN Append(profile.badges, "Luminary")
    ELSE profile.badges

update_badges(st, address) ==
    LET loaded == load_aeon_profile(st, address) IN
    IF loaded = None THEN Ret(ProfileNotFound, st)
    ELSE Ret(Ok, store_aeon_profile(st,
                     [loaded[1] EXCEPT !.badges = UpdatedBadges(loaded[1])]))

\* rpc.rs, aeon_recordSyzygy: the closure run on the State. Each helper is
\* followed by `?`: the first error ends the closure, and what the helpers
\* before it have stored stays.
record_syzygy(st, from_addr, weight, oc) ==
    LET r1 == add_syzygy_score(st, from_addr, weight) IN
    IF ~IsOk(r1.res) THEN r1
    ELSE
    LET xp_gain == weight \div 2
        r2 == IF xp_gain > 0 THEN add_gnosis_xp(r1.st, from_addr, xp_gain)
              ELSE Ret(Ok, r1.st)
    IN
    IF ~IsOk(r2.res) THEN r2
    ELSE
    LET r3 == recompute_ascension(r2.st, from_addr, oc) IN
    IF ~IsOk(r3.res) THEN r3
    ELSE
    LET r4 == update_badges(r3.st, from_addr) IN
    IF ~IsOk(r4.res) THEN r4
    ELSE IF get_aeon_profile(r4.st, from_addr) = None
         THEN Ret(Err("Profile not found after update"), r4.st)
         ELSE r4

---------------------------------------------------------------------------
(* runtime/nft_dgen.rs *)

PREFIX_NFT == "nft:token:"
KEY_NFT_COUNTER == <<"nft:counter">>
PREFIX_OWNER_NFTS == "nft:owner:"

NftId == U64

nft_key(id) == <<PREFIX_NFT, id>>
owner_nfts_key(owner) == <<PREFIX_OWNER_NFTS, owner>>

\* DGenMetadata, field by field in declaration order
serialize_meta(m) ==
    <<m.creator, m.owner, m.fabric_root_hash, m.forge_model_id,
      m.forge_prompt_hash, m.royalty_recipient, m.royalty_bps>>
deserialize_meta(bytes) ==
    IF Len(bytes) >= 7
    THEN Some([creator |-> bytes[1], owner |-> bytes[2],
               fabric_root_hash |-> bytes[3], forge_model_id |-> bytes[4],
               forge_prompt_hash |-> bytes[5], royalty_recipient |-> bytes[6],
               royalty_bps |-> bytes[7]])
    ELSE None

\* MintDgenParams
serialize_mint_params(p) ==
    <<p.fabric_root_hash, p.forge_model_id, p.forge_prompt_hash,
      p.royalty_recipient, p.royalty_bps>>
deserialize_mint_params(bytes) ==
    IF Len(bytes) >= 5
    THEN Some([fabric_root_hash |-> bytes[1], forge_model_id |-> bytes[2],
               forge_prompt_hash |-> bytes[3], royalty_recipient |-> bytes[4],
               royalty_bps |-> bytes[5]])
    ELSE None

\* TransferNftParams {token_id, to}
serialize_transfer_nft_params(token_id, to) == <<token_id, to>>
deserialize_transfer_nft_params(bytes) ==
    IF Len(bytes) >= 2 THEN Some([token_id |-> bytes[1], to |-> bytes[2]]) ELSE None

\* Vec<NftId>: the length, then the elements
serialize_ids(ids) == <<Len(ids)>> \o ids
deserialize_ids(bytes) ==
    IF Len(bytes) >= 1 /\ Len(bytes) - 1 >= bytes[1]
    THEN Some(SubSeq(bytes, 2, bytes[1] + 1))
    ELSE None

load_nft(st, id) ==
    LET raw == get_raw(st, nft_key(id)) IN
    IF raw = None THEN None ELSE deserialize_meta(raw[1])

store_nft(st, id, meta) == put_raw(st, nft_key(id), serialize_meta(meta))

get_next_nft_id(st) == u64_or_zero(get_raw(st, KEY_NFT_COUNTER))

set_next_nft_id(st, next) == put_raw(st, KEY_NFT_COUNTER, serialize_u64(next))

load_owner_nfts(st, owner) ==
    LET raw == get_raw(st, owner_nfts_key(owner)) IN
    IF raw = None THEN <<>>
    ELSE LET v == deserialize_ids(raw[1]) IN IF v = None THEN <<>> ELSE v[1]

store_owner_nfts_prune(st, owner, ids) ==
    IF ids = <<>>
    THEN [k \in DOMAIN st \ {owner_nfts_key(owner)} |-> st[k]]
    ELSE put_raw(st, owner_nfts_key(owner), serialize_ids(ids))
store_owner_nfts(st, owner, ids) == put_raw(st, owner_nfts_key(owner), serialize_ids(ids))

get_nft(st, id) == load_nft(st, id)
get_nfts_by_owner(st, owner) == load_owner_nfts(st, owner)

\* Vec::retain(|id| *id != token_id)
retain_ne(ids, token_id) == SelectSeq(ids, LAMBDA id : id # token_id)

\* The three writes of a mint whose checks have passed.
MintWrites_same_counter(st, from, token_id, next_id, params) ==
    LET meta == [creator |-> from, owner |-> from,
                 fabric_root_hash |-> params.fabric_root_hash,
                 forge_model_id |-> params.forge_model_id,
                 forge_prompt_hash |-> params.forge_prompt_hash,
                 royalty_recipient |-> params.royalty_recipient,
                 royalty_bps |-> params.royalty_bps]
        s2 == store_nft(set_next_nft_id(st, token_id), token_id, meta)
    IN store_owner_nfts(s2, from, Append(load_owner_nfts(s2, from), token_id))
MintWrites(st, from, token_id, next_id, params) ==
    LET s1 == set_next_nft_id(st, next_id)
        meta == [creator |-> from, owner |-> from,
                 fabric_root_hash |-> params.fabric_root_hash,
                 forge_model_id |-> params.forge_model_id,
                 forge_prompt_hash |-> params.forge_prompt_hash,
                 royalty_recipient |-> params.royalty_recipient,
                 royalty_bps |-> params.royalty_bps]
        s2 == store_nft(s1, token_id, meta)
        owner_list == Append(load_owner_nfts(s2, from), token_id)
    IN store_owner_nfts(s2, from, owner_list)

\* "Only Archons can mint D-GEN."
MintAllowed_inverted(st, from) == ~is_archon(st, from)
MintAllowed_anyone(st, from) == TRUE
MintAllowed(st, from) == is_archon(st, from)

handle_mint_dgen(tx, st) ==
    IF ~MintAllowed(st, tx.from)
    THEN Ret(Err("only Archons may mint D-GEN NFTs"), st)
    ELSE
    LET params == deserialize_mint_params(tx.payload) IN
    IF params = None THEN Ret(Err("bincode"), st)
    ELSE
    LET token_id == get_next_nft_id(st)
        next_id == checked_add(token_id, 1)
    IN
    IF next_id = None THEN Ret(Err("nft id overflow"), st)
    ELSE Ret(Ok, MintWrites(st, tx.from, token_id, next_id[1], params[1]))

\* "only the current owner may transfer this NFT"
IsCurrentOwner_anyone(meta, from) == TRUE
IsCurrentOwner(meta, from) == meta.owner = from

\* "Update owner in metadata"
TransferredMeta_creator(meta, to) == [meta EXCEPT !.owner = to, !.creator = to]
TransferredMeta(meta, to) == [meta EXCEPT !.owner = to]

\* "Remove from old owner list", "Add to new owner": the two index writes
TransferIndexWrites_stale_list(st, owner, to, token_id) ==
    LET old_owner_list == retain_ne(load_owner_nfts(st, owner), token_id)
        s1 == store_owner_nfts(st, owner, old_owner_list)
        new_owner_list == Append(load_owner_nfts(st, to), token_id)
    IN store_owner_nfts(s1, to, new_owner_list)
TransferIndexWrites_no_remove(st, owner, to, token_id) ==
    store_owner_nfts(st, to, Append(load_owner_nfts(st, to), token_id))
TransferIndexWrites(st, owner, to, token_id) ==
    LET old_owner_list == retain_ne(load_owner_nfts(st, owner), token_id)
        s1 == store_owner_nfts(st, owner, old_owner_list)
        new_owner_list == Append(load_owner_nfts(s1, to), token_id)
    IN store_owner_nfts(s1, to, new_owner_list)

handle_transfer_nft(tx, st) ==
    LET params == deserialize_transfer_nft_params(tx.payload) IN
    IF params = None THEN Ret(Err("bincode"), st)
    ELSE
    LET token_id == params[1].token_id
        to == params[1].to
        loaded == load_nft(st, token_id)
    IN
    IF loaded = None THEN Ret(Err("NFT not found"), st)
    ELSE
    LET meta == loaded[1] IN
    IF ~IsCurrentOwner(meta, tx.from)
    THEN Ret(Err("only the current owner may transfer this NFT"), st)
    ELSE
    LET s2 == TransferIndexWrites(st, meta.owner, to, token_id)
    IN Ret(Ok, store_nft(s2, token_id, TransferredMeta(meta, to)))

nft_dgen_dispatch(call_id, tx, st) ==
    CASE call_id = "mint_dgen" -> handle_mint_dgen(tx, st)
      [] call_id = "transfer_nft" -> handle_transfer_nft(tx, st)
      [] OTHER -> Ret(Err("nft_dgen: unknown call_id"), st)

---------------------------------------------------------------------------
(* runtime/mod.rs: the registry and dispatch_tx *)

DefaultModules ==
    <<"bank_cgt", "avatars_profiles", "nft_dgen", "fabric_manager", "abyss_registry">>

\* fabric_manager and abyss_registry: only their interface is known. A call
\* id that is none of the module's calls is an error that writes nothing.
registry_dispatch(module_id, call_id, tx, st) ==
    Ret(<<"Err", "unknown call_id", module_id>>, st)

\* self.modules.iter().find(|m| m.module_id() == tx.module_id)
find_module_or_first(modules, module_id) ==
    LET hits == {i \in 1..Len(modules) : modules[i] = module_id} IN
    IF hits = {} THEN Some(modules[1])
    ELSE Some(modules[CHOOSE i \in hits : \A j \in hits : i <= j])
find_module(modules, module_id) ==
    LET hits == {i \in 1..Len(modules) : modules[i] = module_id} IN
    IF hits = {} THEN None
    ELSE Some(modules[CHOOSE i \in hits : \A j \in hits : i <= j])

UnknownModule(module_id) == <<"Err", "Unknown module", module_id>>

\* module.dispatch(&tx.call_id, tx, state) of the module found
module_dispatch(module, tx, st, oc) ==
    CASE module = "bank_cgt" -> bank_cgt_dispatch(tx.call_id, tx, st, oc)
      [] module = "avatars_profiles" -> avatars_profiles_dispatch(tx.call_id, tx, st)
      [] module = "nft_dgen" -> nft_dgen_dispatch(tx.call_id, tx, st)
      [] OTHER -> registry_dispatch(module, tx.call_id, tx, st)

dispatch_tx(tx, st, oc) ==
    LET module == find_module(DefaultModules, tx.module_id) IN
    IF module = None THEN Ret(UnknownModule(tx.module_id), st)
    ELSE module_dispatch(module[1], tx, st, oc)

---------------------------------------------------------------------------
(* Transactions the model dispatches *)

Tx(from, nonce, module_id, call_id, payload, fee) ==
    [from |-> from, nonce |-> nonce, module_id |-> module_id,
     call_id |-> call_id, payload |-> payload, fee |-> fee]

NoTx == Tx(ZERO_ADDRESS, 0, "", "", <<>>, 0)

\* A sender makes at most two successful transfers: its nonce stays within 0..2.
TxNonces == {0, 1}
TxFees == {0, 1}
\* nonce and fee of the calls that are not transfers
NonceFee == {<<0, 0>>, <<1, 1>>}

Malformed == <<>>

BankPayloads ==
    {serialize_params(to, amount) : to \in Address, amount \in U64} \cup {Malformed}

PlainMint ==
    [fabric_root_hash |-> 42, forge_model_id |-> None, forge_prompt_hash |-> None,
     royalty_recipient |-> None, royalty_bps |-> 0]

MintDgenPayloads == {serialize_mint_params(PlainMint), Malformed}

TransferNftPayloads ==
    {serialize_transfer_nft_params(id, to) : id \in NftId, to \in Address}
        \cup {Malformed}

TransferTxs ==
    {Tx(f, n, "bank_cgt", "transfer", p, fee) :
        f \in Address, n \in TxNonces, p \in BankPayloads, fee \in TxFees}

MintToTxs ==
    {Tx(f, nf[1], "bank_cgt", "mint_to", p, nf[2]) :
        f \in Address, nf \in NonceFee, p \in BankPayloads}

ClaimArchonTxs ==
    {Tx(f, nf[1], "avatars_profiles", "claim_archon", <<>>, nf[2]) :
        f \in Address, nf \in NonceFee}

MintDgenTxs ==
    {Tx(f, nf[1], "nft_dgen", "mint_dgen", p, nf[2]) :
        f \in Address, nf \in NonceFee, p \in MintDgenPayloads}

TransferNftTxs ==
    {Tx(f, nf[1], "nft_dgen", "transfer_nft", p, nf[2]) :
        f \in Address, nf \in NonceFee, p \in TransferNftPayloads}

\* a call id that no module has, for each of the default modules
UnknownCallTxs ==
    {Tx(f, 0, DefaultModules[i], "no_such_call", <<>>, 0) :
        f \in Address, i \in 1..Len(DefaultModules)}

\* module ids that are not registered: the one of the test, the empty id, a
\* prefix of a registered id and a call id used as a module id
UnknownModuleIds == {"unknown_module", "", "bank", "transfer"}

UnknownModuleTxs ==
    {Tx(f, 0, m, c, <<>>, 0) :
        f \in Address, m \in UnknownModuleIds, c \in {"test", "transfer"}}

---------------------------------------------------------------------------
(* core/state.rs: State::execute_block; the Forge proof of work *)

\* u128::MAX, the easiest difficulty target
U128Max == 2
U128 == 0..U128Max

BlockHeader(height, prev_hash, state_root, timestamp, difficulty_target, nonce) ==
    [height |-> height, prev_hash |-> prev_hash, state_root |-> state_root,
     timestamp |-> timestamp, difficulty_target |-> difficulty_target,
     nonce |-> nonce]

Block(header, body) == [header |-> header, body |-> body]

\* the header with the nonce field omitted: the PoW preimage
serialize_without_nonce(header) ==
    <<header.height, header.prev_hash, header.state_root, header.timestamp,
      header.difficulty_target>>

RECURSIVE SumSeq(_)
SumSeq(bytes) == IF bytes = <<>> THEN 0 ELSE Head(bytes) + SumSeq(Tail(bytes))

\* A fixed, deterministic digest of the preimage and the nonce; the value is
\* the leading 16 bytes of the hash read as a big-endian u128.
forge_hash(header_bytes, nonce) == (SumSeq(header_bytes) + nonce) % (U128Max + 1)

meets_difficulty(hash, target) == hash <= target

PowVerificationFailed == Err("Forge PoW verification failed")

\* "Verify Forge PoW"
PowVerified_skip(block) == TRUE
PowVerified(block) ==
    LET header_bytes == serialize_without_nonce(block.header)
        hash == forge_hash(header_bytes, block.header.nonce)
    IN meets_difficulty(hash, block.header.difficulty_target)

\* The state the next transaction of the body runs against: `self`, as the
\* transaction before it left it.
StateForNext_snapshot(block_pre, r) == block_pre
StateForNext(block_pre, r) == r.st

\* The state a failing transaction leaves behind when `?` returns its error:
\* `self` as it is, nothing is undone.
StateAfterError_rollback(block_pre, r) == block_pre
StateAfterError(block_pre, r) == r.st

\* for tx in &block.body { runtime.dispatch_tx(tx, self)?; }
\* log: one entry per call of dispatch_tx, in the order of the calls.
RECURSIVE dispatch_body(_, _, _, _, _, _)
dispatch_body(body, i, block_pre, st, log, oc) ==
    IF i > Len(body) THEN [res |-> Ok, st |-> st, log |-> log]
    ELSE
    LET r == dispatch_tx(body[i], st, oc)
        entry == [tx |-> body[i], res |-> r.res, pre |-> st]
    IN
    IF IsOk(r.res)
    THEN dispatch_body(body, i + 1, block_pre, StateForNext(block_pre, r),
                       Append(log, entry), oc)
    ELSE [res |-> r.res, st |-> StateAfterError(block_pre, r),
          log |-> Append(log, entry)]

execute_block(block, st, oc) ==
    IF ~PowVerified(block)
    THEN [res |-> PowVerificationFailed, st |-> st, log |-> <<>>]
    ELSE dispatch_body(block.body, 1, st, st, <<>>, oc)

---------------------------------------------------------------------------
(* node.rs: init_genesis_state, on the persistent backend *)

KEY_GENESIS_INITIALIZED == <<"demiurge/genesis_initialized">>

\* "Check if already initialized"
GenesisInitialized_never(st) == FALSE
GenesisInitialized(st) == get_raw(st, KEY_GENESIS_INITIALIZED) # None

GenesisMintTx ==
    Tx(ZERO_ADDRESS, 0, "bank_cgt", "mint_to",
       serialize_params(GENESIS_ARCHON_ADDRESS, GENESIS_ARCHON_INITIAL_BALANCE), 0)

GenesisClaimTx_from_authority ==
    Tx(ZERO_ADDRESS, 0, "avatars_profiles", "claim_archon", <<>>, 0)
GenesisClaimTx ==
    Tx(GENESIS_ARCHON_ADDRESS, 0, "avatars_profiles", "claim_archon", <<>>, 0)

\* RocksDbBackend::put_raw can fail. fail_at = n: the n-th put_raw of the
\* run returns an error and writes nothing; 0: every put_raw succeeds.
WriteFaults == {0, 1, 2, 3}

StorageError == Err("storage")

\* A handler whose only put_raw is its last step: when that write fails the
\* handler returns the error and the state is as it was.
with_write_fault(r, st, fails) ==
    IF fails /\ IsOk(r.res) THEN Ret(StorageError, st) ELSE r

\* minted: the genesis mint was written; claimed: so was the Archon claim.
init_genesis_state(st, fail_at, oc) ==
    IF GenesisInitialized(st)
    THEN [res |-> Ok, st |-> st, minted |-> FALSE, claimed |-> FALSE]
    ELSE
    LET r1 == with_write_fault(bank_cgt_dispatch("mint_to", GenesisMintTx, st, oc),
                               st, fail_at = 1)
    IN
    IF ~IsOk(r1.res)
    THEN [res |-> <<"Err", "Failed to mint genesis CGT", r1.res>>, st |-> r1.st,
          minted |-> FALSE, claimed |-> FALSE]
    ELSE
    LET r2 == with_write_fault(
                  avatars_profiles_dispatch("claim_archon", GenesisClaimTx, r1.st),
                  r1.st, fail_at = 2)
    IN
    IF ~IsOk(r2.res)
    THEN [res |-> <<"Err", "Failed to claim genesis Archon", r2.res>>, st |-> r2.st,
          minted |-> TRUE, claimed |-> FALSE]
    ELSE
    IF fail_at = 3
    THEN [res |-> StorageError, st |-> r2.st, minted |-> TRUE, claimed |-> TRUE]
    ELSE [res |-> Ok, st |-> put_raw(r2.st, KEY_GENESIS_INITIALIZED, <<1>>),
          minted |-> TRUE, claimed |-> TRUE]

---------------------------------------------------------------------------
(* The keys as bytes *)

\* The byte string of a prefix or fixed key, in ASCII.
prefix_bytes(prefix) ==
    CASE prefix = PREFIX_BALANCE ->
            <<98, 97, 110, 107, 58, 98, 97, 108, 97, 110, 99, 101, 58>>
      [] prefix = PREFIX_NONCE ->
            <<98, 97, 110, 107, 58, 110, 111, 110, 99, 101, 58>>
      [] prefix = PREFIX_ARCHON_FLAG ->
            <<97, 118, 97, 116, 97, 114, 115, 58, 97, 114, 99, 104, 111, 110, 58>>
      [] prefix = PREFIX_AEON_PROFILE ->
            <<97, 101, 111, 110, 47, 112, 114, 111, 102, 105, 108, 101, 58>>
      [] prefix = PREFIX_NFT ->
            <<110, 102, 116, 58, 116, 111, 107, 101, 110, 58>>
      [] prefix = PREFIX_OWNER_NFTS ->
            <<110, 102, 116, 58, 111, 119, 110, 101, 114, 58>>
      [] prefix = KEY_NFT_COUNTER[1] ->
            <<110, 102, 116, 58, 99, 111, 117, 110, 116, 101, 114>>
      [] prefix = KEY_GENESIS_INITIALIZED[1] ->
            <<100, 101, 109, 105, 117, 114, 103, 101, 47, 103, 101, 110, 101, 115, 105, 115, 95, 105, 110, 105, 116, 105, 97, 108, 105, 122, 101, 100>>

\* An Address is [u8; 32]; the addresses of the model are one byte repeated.
address_bytes(address) == [i \in 1..32 |-> address]

\* u64::to_be_bytes of an NFT id (ids of the model are below 256)
to_be_bytes(id) == [i \in 1..8 |-> IF i = 8 THEN id ELSE 0]

\* The Vec<u8> the code builds for a key of the model: the prefix extended by
\* the address or by the id; the two fixed keys are the prefix alone.
key_bytes(key) ==
    IF Len(key) = 1 THEN prefix_bytes(key[1])
    ELSE prefix_bytes(key[1])
            \o (IF key[1] = PREFIX_NFT THEN to_be_bytes(key[2])
                ELSE address_bytes(key[2]))

---------------------------------------------------------------------------
(* Blocks the model executes *)

\* the header of test_execute_block_with_easy_difficulty
EasyHeader == BlockHeader(0, 0, 0, 0, U128Max, 0)

NoBlock == Block(EasyHeader, <<>>)

Headers == {BlockHeader(0, 0, 0, 0, t, n) : t \in U128, n \in {0, 1}}

\* The transactions of block bodies: mints by the authority and by a user,
\* transfers between the user and the genesis identity, an Archon claim and
\* a transaction for a module that is not registered.
BlockTxs ==
    {Tx(ZERO_ADDRESS, 0, "bank_cgt", "mint_to",
        serialize_params(USER_ADDRESS, amount), 0) : amount \in {1, U64Max}}
    \cup {Tx(USER_ADDRESS, 0, "bank_cgt", "mint_to",
              serialize_params(USER_ADDRESS, 1), 0)}
    \cup {Tx(USER_ADDRESS, n, "bank_cgt", "transfer",
              serialize_params(GENESIS_ARCHON_ADDRESS, 1), fee) :
                n \in TxNonces, fee \in TxFees}
    \cup {Tx(GENESIS_ARCHON_ADDRESS, 0, "bank_cgt", "transfer",
              serialize_params(USER_ADDRESS, 1), 0)}
    \cup {Tx(USER_ADDRESS, 0, "avatars_profiles", "claim_archon", <<>>, 0)}
    \cup {Tx(ZERO_ADDRESS, 0, "unknown_module", "test", <<>>, 0)}

ShortBodies == {<<>>} \cup {<<t>> : t \in BlockTxs}

Bodies ==
    ShortBodies
    \cup {<<t1, t2>> : t1 \in BlockTxs, t2 \in BlockTxs}
    \cup {<<t1, t2, t3>> : t1 \in BlockTxs, t2 \in BlockTxs, t3 \in BlockTxs}

\* every body under the easy header, and every header over the short bodies
Blocks ==
    {Block(EasyHeader, b) : b \in Bodies}
    \cup {Block(h, b) : h \in Headers, b \in ShortBodies}

---------------------------------------------------------------------------
(* The state machine *)

IsCall(tx, module_id, call_id) == tx.module_id = module_id /\ tx.call_id = call_id

\* Keys and values of the backend tests (state.rs): byte strings.
RawKeys == {<<"test_key">>, <<"key">>, <<"missing_key">>}
RawValues == {<<1>>, <<2>>}

\* Threads that call into the Node (JSON-RPC handlers), and the position of
\* one of them: outside any Node method, with no transaction or closure.
Threads == {1, 2, 3}
NoThread == 0
Outside ==
    [pc |-> "out", tx |-> NoTx, read |-> <<>>, todo |-> <<>>, obs |-> <<>>,
     owner |-> <<>>, ids |-> <<>>, nfts |-> <<>>]

\* Node::new: an empty mempool, both mutexes free, every thread outside.
\* order, completed and committed are history: the submissions in the order
\* they took the mempool lock, the number of submit_transaction calls that
\* have returned, and the State as the last closure left it.
NodeInit ==
    [mempool |-> <<>>, mempool_lock |-> NoThread, order |-> <<>>, completed |-> 0,
     state_lock |-> NoThread, committed |-> EmptyState,
     height_lock |-> NoThread, poisoned |-> {},
     th |-> [t \in Threads |-> Outside]]

HistInit ==
    [xfers |-> [a \in Address |-> 0], mints |-> 0,
     minters |-> [id \in NftId |-> None], genesis_mints |-> 0,
     claimed |-> {}, written |-> [k \in RawKeys |-> None],
     minted_cgt |-> 0, burned_fees |-> 0,
     debits |-> [a \in Address |-> [n \in TxNonces |-> 0]]]

\* No operation is under observation.
Idle ==
    [op |-> "idle", tx |-> NoTx, block |-> NoBlock, log |-> <<>>, fault |-> 0,
     rfault |-> {}, arg |-> <<>>, ret |-> <<>>, res |-> Ok, pre |-> EmptyState]

Init ==
    /\ state = EmptyState
    /\ last = Idle
    /\ hist = HistInit
    /\ steps = 0
    /\ overflow_checks \in BOOLEAN
    /\ node = NodeInit

\* the history after dispatch_tx(tx) returned res on the state pre
RecordTx(h, tx, res, pre) ==
    [xfers |->
        IF IsCall(tx, "bank_cgt", "transfer") /\ IsOk(res)
        THEN [h.xfers EXCEPT ![tx.from] = @ + 1]
        ELSE h.xfers,
     mints |->
        IF IsCall(tx, "nft_dgen", "mint_dgen") /\ IsOk(res)
        THEN h.mints + 1
        ELSE h.mints,
     minters |->
        IF IsCall(tx, "nft_dgen", "mint_dgen") /\ IsOk(res)
        THEN [h.minters EXCEPT ![get_next_nft_id(pre)] = Some(tx.from)]
        ELSE h.minters,
     genesis_mints |-> h.genesis_mints,
     claimed |->
        IF IsCall(tx, "avatars_profiles", "claim_archon") /\ IsOk(res)
        THEN h.claimed \cup {tx.from}
        ELSE h.claimed,
     written |-> h.written,
     minted_cgt |-> h.minted_cgt, burned_fees |-> h.burned_fees,
     debits |->
        IF IsCall(tx, "bank_cgt", "transfer") /\ IsOk(res)
        THEN [h.debits EXCEPT ![tx.from][tx.nonce] = @ + 1]
        ELSE h.debits]

\* the history with the supply ledger: the amounts of the successful mint_to
\* calls and the fees of the successful transfers
RecordSupply(h, tx, res) ==
    [h EXCEPT
        !.minted_cgt =
            IF IsCall(tx, "bank_cgt", "mint_to") /\ IsOk(res)
            THEN @ + deserialize_params(tx.payload)[1].amount
            ELSE @,
        !.burned_fees =
            IF IsCall(tx, "bank_cgt", "transfer") /\ IsOk(res)
            THEN @ + tx.fee
            ELSE @]

RECURSIVE RecordLog(_, _)
RecordLog(h, log) ==
    IF log = <<>> THEN h
    ELSE RecordLog(RecordTx(h, Head(log).tx, Head(log).res, Head(log).pre), Tail(log))

\* Runtime::dispatch_tx(tx, state) on the State
DispatchTx(tx) ==
    LET r == dispatch_tx(tx, state, overflow_checks) IN
    /\ last.op = "idle"
    /\ state' = r.st
    /\ last' = [Idle EXCEPT !.op = "dispatch_tx", !.tx = tx, !.res = r.res,
                             !.pre = state]
    /\ hist' = RecordTx(hist, tx, r.res, state)
    /\ UNCHANGED <<overflow_checks, node>>

\* State::execute_block(block)
ExecuteBlock ==
    \E block \in Blocks :
        LET r == execute_block(block, state, overflow_checks) IN
        /\ last.op = "idle"
        /\ state' = r.st
        /\ last' = [Idle EXCEPT !.op = "execute_block", !.block = block,
                                 !.log = r.log, !.res = r.res, !.pre = state]
        /\ hist' = RecordLog(hist, r.log)
        /\ UNCHANGED <<steps, overflow_checks, node>>

\* Node::new(db_path) on the database: a start of the node. It runs
\* init_genesis_state, and returns its error when a write fails.
NodeNew ==
    \E fail_at \in WriteFaults :
        LET r == init_genesis_state(state, fail_at, overflow_checks) IN
        /\ last.op = "idle"
        /\ state' = r.st
        /\ last' = [Idle EXCEPT !.op = "init_genesis_state", !.fault = fail_at,
                                 !.res = r.res, !.pre = state]
        /\ hist' = [hist EXCEPT
                        !.genesis_mints = IF r.minted THEN @ + 1 ELSE @,
                        !.claimed = IF r.claimed
                                    THEN @ \cup {GENESIS_ARCHON_ADDRESS} ELSE @]
        /\ UNCHANGED <<steps, overflow_checks, node>>

\* A transaction dispatched on the state of a node: Node::new has returned
\* Ok, so the flag is set.
NodeDispatch ==
    /\ GenesisInitialized(state)
    /\ UNCHANGED steps
    /\ \E tx \in BlockTxs : DispatchTx(tx)

\* The caller has read the result of the last operation.
Forget ==
    /\ last.op # "idle"
    /\ last' = Idle
    /\ UNCHANGED <<state, hist, steps, overflow_checks, node>>

Step == steps < MaxSteps /\ steps' = steps + 1

Transfer == Step /\ \E tx \in TransferTxs : DispatchTx(tx)
MintTo == Step /\ \E tx \in MintToTxs : DispatchTx(tx)
ClaimArchon == Step /\ \E tx \in ClaimArchonTxs : DispatchTx(tx)
MintDgen == Step /\ \E tx \in MintDgenTxs : DispatchTx(tx)
TransferNft == Step /\ \E tx \in TransferNftTxs : DispatchTx(tx)
UnknownCall == Step /\ \E tx \in UnknownCallTxs : DispatchTx(tx)
UnknownModuleCall == Step /\ \E tx \in UnknownModuleTxs : DispatchTx(tx)

Next ==
    \/ Transfer
    \/ MintTo
    \/ ClaimArchon
    \/ MintDgen
    \/ TransferNft
    \/ UnknownCall
    \/ UnknownModuleCall
    \/ Forget

\* Every sequence of at most MaxSteps dispatched transactions, from any module.
Spec == Init /\ [][Next]_vars

\* bank_cgt alone, without a bound on the number of transactions
BankTransfer == UNCHANGED steps /\ \E tx \in TransferTxs : DispatchTx(tx)
BankMintTo == UNCHANGED steps /\ \E tx \in MintToTxs : DispatchTx(tx)

NextBank == BankTransfer \/ BankMintTo \/ Forget

SpecBank == Init /\ [][NextBank]_vars

\* Runtime::dispatch_tx(tx, state), with the supply ledger kept
SupplyDispatchTx(tx) ==
    LET r == dispatch_tx(tx, state, overflow_checks) IN
    /\ last.op = "idle"
    /\ state' = r.st
    /\ last' = [Idle EXCEPT !.op = "dispatch_tx", !.tx = tx, !.res = r.res,
                             !.pre = state]
    /\ hist' = RecordSupply(RecordTx(hist, tx, r.res, state), tx, r.res)
    /\ UNCHANGED <<overflow_checks, node>>

SupplyTransfer == Step /\ \E tx \in TransferTxs : SupplyDispatchTx(tx)
SupplyMintTo == Step /\ \E tx \in MintToTxs : SupplyDispatchTx(tx)
SupplyOther == Step /\ \E tx \in ClaimArchonTxs \cup MintDgenTxs : SupplyDispatchTx(tx)

NextSupply == SupplyTransfer \/ SupplyMintTo \/ SupplyOther \/ Forget

\* Sequences of at most MaxSteps transactions, with the supply ledger
SpecSupply == Init /\ [][NextSupply]_vars

\* The Archon flag and nft_dgen, without a bound on the number of transactions
NftClaimArchon == UNCHANGED steps /\ \E tx \in ClaimArchonTxs : DispatchTx(tx)
NftMintDgen == UNCHANGED steps /\ \E tx \in MintDgenTxs : DispatchTx(tx)
NftTransferNft == UNCHANGED steps /\ \E tx \in TransferNftTxs : DispatchTx(tx)

NextNft == NftClaimArchon \/ NftMintDgen \/ NftTransferNft \/ Forget

SpecNft == Init /\ [][NextNft]_vars

\* Blocks executed one after another
NextBlock == ExecuteBlock \/ Forget

SpecBlock == Init /\ [][NextBlock]_vars

\* Starts of the node on one database, and transactions between them
\* Arguments of the profile helpers. The first address takes every
\* amount, the second one the largest only.
ProfileAddrs == {USER_ADDRESS, GENESIS_ARCHON_ADDRESS}
Heights == {0, 1}
CreateArgs ==
    {<<USER_ADDRESS, "Test Aeon", Some("Test bio"), h>> : h \in Heights}
    \cup {<<GENESIS_ARCHON_ADDRESS, "Archon", None, 0>>}
AmountArgs ==
    ({USER_ADDRESS} \X ProfileU64) \cup ({GENESIS_ARCHON_ADDRESS} \X {ProfileU64Max})

\* a helper call on the State: its arguments, result and pre-state
HelperCall(op, arg, r, ret) ==
    /\ last.op = "idle"
    /\ state' = r.st
    /\ last' = [Idle EXCEPT !.op = op, !.arg = arg, !.ret = ret, !.res = r.res,
                             !.pre = state]
    /\ UNCHANGED <<hist, steps, overflow_checks, node>>

CreateAeonProfile ==
    \E arg \in CreateArgs :
        LET r == create_aeon_profile(state, arg[1], arg[2], arg[3], arg[4]) IN
        HelperCall("create_aeon_profile", arg, r, r.profile)

AddGnosisXp ==
    \E arg \in AmountArgs :
        HelperCall("add_gnosis_xp", arg, add_gnosis_xp(state, arg[1], arg[2]), None)

AddSyzygyScore ==
    \E arg \in AmountArgs :
        HelperCall("add_syzygy_score", arg,
                   add_syzygy_score(state, arg[1], arg[2]), None)

RecomputeAscension ==
    \E address \in ProfileAddrs :
        HelperCall("recompute_ascension", <<address>>,
                   recompute_ascension(state, address, overflow_checks), None)

UpdateBadges ==
    \E address \in ProfileAddrs :
        HelperCall("update_badges", <<address>>, update_badges(state, address), None)

\* the RPC method aeon_recordSyzygy
RecordSyzygy ==
    \E arg \in AmountArgs :
        HelperCall("record_syzygy", arg,
                   record_syzygy(state, arg[1], arg[2], overflow_checks), None)

\* The profile helpers on a State
NextProfile ==
    \/ CreateAeonProfile
    \/ AddGnosisXp
    \/ AddSyzygyScore
    \/ RecomputeAscension
    \/ UpdateBadges
    \/ RecordSyzygy
    \/ Forget

SpecProfile == Init /\ [][NextProfile]_vars

\* State::put_raw(key, value) on the in-memory State
PutRaw ==
    \E key \in RawKeys, value \in RawValues :
        /\ last.op = "idle"
        /\ state' = put_raw(state, key, value)
        /\ last' = [Idle EXCEPT !.op = "put_raw", !.arg = <<key, value>>,
                                 !.pre = state]
        /\ hist' = [hist EXCEPT !.written[key] = Some(value)]
        /\ UNCHANGED <<steps, overflow_checks, node>>

\* State::get_raw(key) on the in-memory State
GetRaw ==
    \E key \in RawKeys :
        /\ last.op = "idle"
        /\ last' = [Idle EXCEPT !.op = "get_raw", !.arg = <<key>>,
                                 !.ret = get_raw(state, key), !.pre = state]
        /\ UNCHANGED <<state, hist, steps, overflow_checks, node>>

\* The in-memory State used as a key-value store
NextKv == PutRaw \/ GetRaw \/ Forget

SpecKv == Init /\ [][NextKv]_vars

NextGenesis == NodeNew \/ NodeDispatch \/ Forget

SpecGenesis == Init /\ [][NextGenesis]_vars

---------------------------------------------------------------------------
(* core/state.rs: RocksDbBackend, reads that fail *)

\* RocksDbBackend::get_raw is self.db.get(key).ok().flatten(): an Err of the
\* engine becomes None. failing: the keys whose db.get returns Err. What
\* every get_raw of an operation returns is then the State without them.
rocksdb_view(st, failing) == [k \in DOMAIN st \ failing |-> st[k]]

\* RocksDbBackend::put_raw: the database after the writes of an operation
\* that ran on the view and left it as post
rocksdb_commit(st, post) ==
    [k \in DOMAIN st \cup DOMAIN post |-> IF k \in DOMAIN post THEN post[k] ELSE st[k]]

\* Transactions dispatched on the persistent State: mints of 1 by the
\* genesis authority and transfers of 0 or 1 between two addresses, fee 0.
RocksAddrs == {USER_ADDRESS, GENESIS_ARCHON_ADDRESS}
RocksTxs ==
    {Tx(ZERO_ADDRESS, 0, "bank_cgt", "mint_to", serialize_params(to, 1), 0) :
        to \in RocksAddrs}
    \cup {Tx(ft[1], n, "bank_cgt", "transfer", serialize_params(ft[2], amount), 0) :
            ft \in {x \in RocksAddrs \X RocksAddrs : x[1] # x[2]},
            n \in TxNonces, amount \in {0, 1}}

\* no read fails, or the reads of one key fail
ReadFaults ==
    {{}} \cup {{balance_key(a)} : a \in RocksAddrs} \cup {{nonce_key(a)} : a \in RocksAddrs}

\* Runtime::dispatch_tx on a State opened with State::open_rocksdb. With
\* failing reads a nonce can go back, so the number of transfers is bounded
\* by the number of operations only.
RocksDispatch ==
    \E tx \in RocksTxs, failing \in ReadFaults :
        LET view == rocksdb_view(state, failing)
            r == dispatch_tx(tx, view, overflow_checks)
        IN
        /\ last.op = "idle"
        /\ Step
        /\ state' = rocksdb_commit(state, r.st)
        /\ last' = [Idle EXCEPT !.op = "rocks_dispatch", !.tx = tx,
                                 !.rfault = failing, !.res = r.res, !.pre = state]
        /\ hist' = RecordTx(hist, tx, r.res, view)
        /\ UNCHANGED <<overflow_checks, node>>

NextRocks == RocksDispatch \/ Forget

SpecRocks == Init /\ [][NextRocks]_vars

---------------------------------------------------------------------------
(* node.rs: threads on a running Node *)

DEV_FAUCET_AMOUNT == 1
MaxSubmissions == 3

\* The State a Node holds once Node::new has returned Ok.
GenesisState == init_genesis_state(EmptyState, 0, FALSE).st

InitNode ==
    /\ state = GenesisState
    /\ last = Idle
    /\ hist = [HistInit EXCEPT !.genesis_mints = 1,
                               !.claimed = {GENESIS_ARCHON_ADDRESS}]
    /\ steps = 0
    /\ overflow_checks \in BOOLEAN
    /\ node = [NodeInit EXCEPT !.committed = GenesisState]

\* Mutex::lock returns once no thread holds the mutex.
mutex_free_always(holder) == TRUE
mutex_free(holder) == holder = NoThread

\* mempool.push(tx)
mempool_push_front(mempool, tx) == <<tx>> \o mempool
mempool_push(mempool, tx) == Append(mempool, tx)

\* Transactions handed to submit_transaction: one with a payload that does
\* not decode, one for a module that does not exist with a nonce that
\* matches nothing.
SubmitTxs ==
    {Tx(USER_ADDRESS, 0, "bank_cgt", "transfer", Malformed, 0),
     Tx(ZERO_ADDRESS, 1, "unknown_module", "", <<>>, 0)}

\* a step of a thread inside a Node method that leaves the State alone
NodeStep(n) ==
    /\ node' = n
    /\ UNCHANGED <<state, last, hist, steps, overflow_checks>>

\* submit_transaction(tx) is called
SubmitCall ==
    \E t \in Threads, tx \in SubmitTxs :
        /\ node.th[t].pc = "out"
        /\ Len(node.order) + Cardinality({u \in Threads : node.th[u].pc = "submit"})
              < MaxSubmissions
        /\ NodeStep([node EXCEPT !.th[t] = [Outside EXCEPT !.pc = "submit", !.tx = tx]])

\* self.mempool.lock()
MempoolLock ==
    \E t \in Threads :
        /\ node.th[t].pc = "submit"
        /\ mutex_free(node.mempool_lock)
        /\ NodeStep([node EXCEPT !.mempool_lock = t,
                                 !.order = Append(@, <<t, node.th[t].tx>>),
                                 !.th[t].pc = "submit_locked"])

\* mempool.push(tx)
MempoolPush ==
    \E t \in Threads :
        /\ node.th[t].pc = "submit_locked"
        /\ NodeStep([node EXCEPT !.mempool = mempool_push(@, node.th[t].tx),
                                 !.th[t].pc = "submit_pushed"])

\* the guard is dropped and submit_transaction returns
SubmitReturn ==
    \E t \in Threads :
        /\ node.th[t].pc = "submit_pushed"
        /\ NodeStep([node EXCEPT !.mempool_lock = NoThread,
                                 !.completed = @ + 1,
                                 !.th[t] = Outside])

\* Concurrent submit_transaction calls on a Node
NextMempool == SubmitCall \/ MempoolLock \/ MempoolPush \/ SubmitReturn

SpecMempool == InitNode /\ [][NextMempool]_vars

\* Closures given to with_state_mut: the dev faucet (a mint_to by the zero
\* address), a D-GEN mint for an owner, a transfer.
FaucetTx(addr) ==
    Tx(ZERO_ADDRESS, 0, "bank_cgt", "mint_to",
       serialize_params(addr, DEV_FAUCET_AMOUNT), 0)
MintClosureTx(owner_addr) ==
    Tx(owner_addr, 0, "nft_dgen", "mint_dgen", serialize_mint_params(PlainMint), 0)
ClosureTxs ==
    {FaucetTx(GENESIS_ARCHON_ADDRESS)}
    \cup {MintClosureTx(a) : a \in {GENESIS_ARCHON_ADDRESS, USER_ADDRESS}}
    \cup {Tx(GENESIS_ARCHON_ADDRESS, n, "bank_cgt", "transfer",
             serialize_params(USER_ADDRESS, 1), 0) : n \in TxNonces}

\* the keys a successful handler writes, in the order of its put_raw calls
closure_write_keys(tx, st) ==
    CASE IsCall(tx, "bank_cgt", "transfer") ->
            <<balance_key(tx.from), balance_key(deserialize_params(tx.payload)[1].to),
              nonce_key(tx.from)>>
      [] IsCall(tx, "bank_cgt", "mint_to") ->
            <<balance_key(deserialize_params(tx.payload)[1].to)>>
      [] IsCall(tx, "nft_dgen", "mint_dgen") ->
            <<KEY_NFT_COUNTER, nft_key(get_next_nft_id(st)), owner_nfts_key(tx.from)>>
      [] IsCall(tx, "nft_dgen", "transfer_nft") ->
            <<owner_nfts_key(tx.from),
              owner_nfts_key(deserialize_transfer_nft_params(tx.payload)[1].to),
              nft_key(deserialize_transfer_nft_params(tx.payload)[1].token_id)>>
      [] OTHER -> <<>>

\* the State after the first n put_raw calls of a closure that takes it from
\* st to post
after_writes(st, post, keys, n) ==
    LET written == {keys[i] : i \in 1..n} IN
    [k \in DOMAIN st \cup written |-> IF k \in written THEN post[k] ELSE st[k]]

\* the States a closure that dispatches tx passes through, one per put_raw;
\* none when the handler returns an error before its first write
closure_steps(tx, st, oc) ==
    LET r == dispatch_tx(tx, st, oc)
        keys == closure_write_keys(tx, st)
    IN IF IsOk(r.res)
       THEN [n \in 1..Len(keys) |-> after_writes(st, r.st, keys, n)]
       ELSE <<>>

\* The read helpers of Node, each a with_state closure
ReadCalls ==
    {<<"get_balance_cgt", USER_ADDRESS>>, <<"get_balance_cgt", GENESIS_ARCHON_ADDRESS>>,
     <<"get_nfts_by_owner", GENESIS_ARCHON_ADDRESS>>, <<"get_nft", 0>>}

node_read(call, st) ==
    CASE call[1] = "get_balance_cgt" -> <<get_balance_cgt(st, call[2])>>
      [] call[1] = "get_nfts_by_owner" -> <<get_nfts_by_owner(st, call[2])>>
      [] call[1] = "get_nft" -> <<get_nft(st, call[2])>>

\* with_state(f) is called
WithStateCall ==
    \E t \in Threads, call \in ReadCalls :
        /\ node.th[t].pc = "out"
        /\ NodeStep([node EXCEPT !.th[t] = [Outside EXCEPT !.pc = "with_state",
                                                          !.read = call]])

\* with_state_mut(f) is called
WithStateMutCall ==
    \E t \in Threads, tx \in ClosureTxs :
        /\ node.th[t].pc = "out"
        /\ NodeStep([node EXCEPT !.th[t] = [Outside EXCEPT !.pc = "with_state_mut",
                                                          !.tx = tx]])

\* self.state.lock(): the closure starts
StateLock ==
    \E t \in Threads :
        /\ node.th[t].pc \in {"with_state", "with_state_mut"}
        /\ mutex_free(node.state_lock)
        /\ NodeStep([node EXCEPT
              !.state_lock = t,
              !.th[t].pc = IF node.th[t].pc = "with_state" THEN "reading" ELSE "writing",
              !.th[t].todo = IF node.th[t].pc = "with_state" THEN <<>>
                             ELSE closure_steps(node.th[t].tx, state, overflow_checks)])

\* one put_raw of a with_state_mut closure
ClosureWrite ==
    \E t \in Threads :
        /\ node.th[t].pc = "writing"
        /\ node.th[t].todo # <<>>
        /\ state' = Head(node.th[t].todo)
        /\ node' = [node EXCEPT !.th[t].todo = Tail(@)]
        /\ UNCHANGED <<last, hist, steps, overflow_checks>>

\* the read of a with_state closure
ClosureRead ==
    \E t \in Threads :
        /\ node.th[t].pc = "reading"
        /\ NodeStep([node EXCEPT !.th[t].pc = "read_done",
                                 !.th[t].obs = node_read(node.th[t].read, state)])

\* the closure returns and the guard is dropped
StateUnlock ==
    \E t \in Threads :
        /\ \/ node.th[t].pc = "read_done"
           \/ node.th[t].pc = "writing" /\ node.th[t].todo = <<>>
        /\ NodeStep([node EXCEPT !.state_lock = NoThread,
                                 !.committed = state,
                                 !.th[t] = Outside])

\* Concurrent with_state and with_state_mut calls on a Node
NextNodeState ==
    \/ WithStateCall
    \/ WithStateMutCall
    \/ StateLock
    \/ ClosureWrite
    \/ ClosureRead
    \/ StateUnlock

SpecNodeState == InitNode /\ [][NextNodeState]_vars

---------------------------------------------------------------------------
(* rpc.rs: the cgt_getNftsByOwner handler beside with_state_mut closures *)

\* Closures that mint a D-GEN NFT or dispatch a transfer_nft of token 0
NftClosureTxs ==
    {MintClosureTx(GENESIS_ARCHON_ADDRESS),
     Tx(GENESIS_ARCHON_ADDRESS, 0, "nft_dgen", "transfer_nft",
        serialize_transfer_nft_params(0, USER_ADDRESS), 0),
     Tx(USER_ADDRESS, 0, "nft_dgen", "transfer_nft",
        serialize_transfer_nft_params(0, GENESIS_ARCHON_ADDRESS), 0)}

RpcOwners == {GENESIS_ARCHON_ADDRESS, USER_ADDRESS}

\* json!({"id": id, "owner": ..}) or json!({"id": id, "missing": true})
nft_json(id, meta) == [id |-> id, meta |-> meta]

\* "cgt_getNftsByOwner" with an address that parses
GetNftsByOwnerCall ==
    \E t \in Threads, owner \in RpcOwners :
        /\ node.th[t].pc = "out"
        /\ NodeStep([node EXCEPT !.th[t] = [Outside EXCEPT !.pc = "rpc_list",
                                                          !.owner = <<owner>>]])

\* self.state.lock() of node.get_nfts_by_owner or of node.get_nft
RpcStateLock ==
    \E t \in Threads :
        /\ node.th[t].pc \in {"rpc_list", "rpc_meta"}
        /\ mutex_free(node.state_lock)
        /\ NodeStep([node EXCEPT
              !.state_lock = t,
              !.th[t].pc = IF node.th[t].pc = "rpc_list" THEN "rpc_list_locked"
                           ELSE "rpc_meta_locked"])

\* the pc of the handler after a with_state call, with ids left to fetch
rpc_after(ids) == IF ids = <<>> THEN "rpc_done" ELSE "rpc_meta"

\* node.get_nfts_by_owner(&owner): the closure reads the list and returns
RpcGetNftsByOwner ==
    \E t \in Threads :
        LET ids == get_nfts_by_owner(state, node.th[t].owner[1]) IN
        /\ node.th[t].pc = "rpc_list_locked"
        /\ NodeStep([node EXCEPT !.state_lock = NoThread,
                                 !.th[t].ids = ids,
                                 !.th[t].pc = rpc_after(ids)])

\* node.get_nft(id) for the next id of the list
RpcGetNft ==
    \E t \in Threads :
        LET id == Head(node.th[t].ids)
            rest == Tail(node.th[t].ids)
        IN
        /\ node.th[t].pc = "rpc_meta_locked"
        /\ NodeStep([node EXCEPT
              !.state_lock = NoThread,
              !.th[t].ids = rest,
              !.th[t].nfts = Append(@, nft_json(id, get_nft(state, id))),
              !.th[t].pc = rpc_after(rest)])

\* the response is sent
RpcReturn ==
    \E t \in Threads :
        /\ node.th[t].pc = "rpc_done"
        /\ NodeStep([node EXCEPT !.th[t] = Outside])

\* with_state_mut(f) with a closure that mints or transfers an NFT
NftClosureCall ==
    \E t \in Threads, tx \in NftClosureTxs :
        /\ node.th[t].pc = "out"
        /\ Step
        /\ node' = [node EXCEPT !.th[t] = [Outside EXCEPT !.pc = "with_state_mut",
                                                         !.tx = tx]]
        /\ UNCHANGED <<state, last, hist, overflow_checks>>

NextRpcNfts ==
    \/ GetNftsByOwnerCall
    \/ RpcStateLock
    \/ RpcGetNftsByOwner
    \/ RpcGetNft
    \/ RpcReturn
    \/ NftClosureCall
    \/ StateLock
    \/ ClosureWrite
    \/ StateUnlock

SpecRpcNfts == InitNode /\ [][NextRpcNfts]_vars

---------------------------------------------------------------------------
(* What the last operation was, and what it changed *)

LastIs(module_id, call_id) ==
    last.op = "dispatch_tx" /\ IsCall(last.tx, module_id, call_id)

LastIsTransfer == LastIs("bank_cgt", "transfer")
LastIsMintTo == LastIs("bank_cgt", "mint_to")
LastIsMintDgen == LastIs("nft_dgen", "mint_dgen")
LastIsTransferNft == LastIs("nft_dgen", "transfer_nft")

Balances(st) == [a \in Address |-> get_balance(st, a)]
Nonces(st) == [a \in Address |-> get_nonce(st, a)]

\* balance(a) now minus balance(a) before the last operation
DeltaBalance(a) == get_balance(state, a) - get_balance(last.pre, a)
DeltaNonce(a) == get_nonce(state, a) - get_nonce(last.pre, a)

\* the balance change summed over the accounts a and b, counted once each
DeltaBalances(a, b) ==
    IF a = b THEN DeltaBalance(a) ELSE DeltaBalance(a) + DeltaBalance(b)

---------------------------------------------------------------------------
(* bank_cgt.transfer *)

\* C1: for every successful transfer, the balance changes of the accounts it
\* involves (the sender and the recipient, one account when they coincide)
\* plus the fee sum to 0, and the sender's nonce increases by exactly 1.
C1_TransferConservation ==
    (LastIsTransfer /\ IsOk(last.res)) =>
        LET p == deserialize_params(last.tx.payload)[1] IN
        /\ DeltaBalances(last.tx.from, p.to) + last.tx.fee = 0
        /\ DeltaNonce(last.tx.from) = 1

\* C2: a successful transfer to the sender itself leaves the sender's balance
\* at its previous balance minus the fee.
C2_SelfTransferCostsFee ==
    (LastIsTransfer /\ IsOk(last.res)) =>
        LET p == deserialize_params(last.tx.payload)[1] IN
        p.to = last.tx.from =>
            get_balance(state, last.tx.from)
                = get_balance(last.pre, last.tx.from) - last.tx.fee

\* C3: nonce(a) is the number of successful transfers from a, and an
\* operation that is not a successful transfer leaves every nonce unchanged.
C3_NonceCountsTransfers ==
    /\ \A a \in Address : get_nonce(state, a) = hist.xfers[a]
    /\ (last.op = "dispatch_tx" /\ ~(LastIsTransfer /\ IsOk(last.res)))
            => Nonces(state) = Nonces(last.pre)

\* a sender that has transferred successfully, then a successful call of
\* another module from it
C3_Witness ==
    /\ last.op = "dispatch_tx" /\ ~LastIsTransfer /\ IsOk(last.res)
    /\ hist.xfers[last.tx.from] >= 1
    /\ get_nonce(state, last.tx.from) >= 1

\* C4: a transfer whose nonce differs from the stored nonce of its sender
\* fails and changes nothing; when its payload decodes (the payload is
\* decoded before the nonce is read) the error is the invalid-nonce error
\* with expected = the stored nonce and got = tx.nonce.
C4_InvalidNonce ==
    (LastIsTransfer /\ last.tx.nonce # get_nonce(last.pre, last.tx.from)) =>
        /\ ~IsOk(last.res)
        /\ state = last.pre
        /\ Balances(state) = Balances(last.pre)
        /\ Nonces(state) = Nonces(last.pre)
        /\ deserialize_params(last.tx.payload) # None =>
              last.res = <<"Err", "invalid nonce",
                           get_nonce(last.pre, last.tx.from), last.tx.nonce>>

\* a funded sender that has already transferred once sends its old nonce again
C4_Witness ==
    /\ LastIsTransfer
    /\ deserialize_params(last.tx.payload) # None
    /\ get_nonce(last.pre, last.tx.from) = 1
    /\ last.tx.nonce = 0
    /\ get_balance(last.pre, last.tx.from) > 0
    /\ last.res = <<"Err", "invalid nonce", 1, 0>>

\* the transfer of the last operation passed the payload and nonce checks
TransferReachedBalances ==
    /\ LastIsTransfer
    /\ deserialize_params(last.tx.payload) # None
    /\ last.tx.nonce = get_nonce(last.pre, last.tx.from)

LastAmount == deserialize_params(last.tx.payload)[1].amount
LastTo == deserialize_params(last.tx.payload)[1].to

\* C5: a transfer with a matching nonce whose sender holds less than
\* amount + fee (a sum that fits a u64) fails with the insufficient-balance
\* error and changes nothing; every stored balance is a u64 that no
\* subtraction took below zero.
C5_InsufficientBalance ==
    /\ (/\ TransferReachedBalances
        /\ LastAmount + last.tx.fee <= U64Max
        /\ get_balance(last.pre, last.tx.from) < LastAmount + last.tx.fee)
          => /\ last.res = Err("insufficient balance for amount + fee")
             /\ state = last.pre
    /\ (LastIsTransfer /\ IsOk(last.res))
          => get_balance(last.pre, last.tx.from) >= LastAmount + last.tx.fee
    /\ \A a \in Address : get_balance(state, a) \in U64

\* a sender with some balance asks for more than it holds
C5_Witness ==
    /\ TransferReachedBalances
    /\ get_balance(last.pre, last.tx.from) > 0
    /\ get_balance(last.pre, last.tx.from) < LastAmount + last.tx.fee
    /\ LastAmount + last.tx.fee <= U64Max
    /\ last.res = Err("insufficient balance for amount + fee")

C6_WitnessSum ==
    /\ TransferReachedBalances
    /\ LastAmount + last.tx.fee > U64Max
    /\ last.res = Err("overflow")

---------------------------------------------------------------------------
(* bank_cgt.mint_to *)

NotGenesisAuthority ==
    Err("mint_to can only be called by genesis authority (all-zero address)")

\* C7: mint_to succeeds only from the all-zero address; from any other
\* sender it fails with the genesis-authority error, whatever the payload,
\* and changes nothing.
C7_MintAuthority ==
    LastIsMintTo =>
        /\ IsOk(last.res) => last.tx.from = ZERO_ADDRESS
        /\ last.tx.from # ZERO_ADDRESS =>
              last.res = NotGenesisAuthority /\ state = last.pre

\* both a malformed and a well-formed payload from a sender that is not the
\* authority: here the malformed one
C7_Witness ==
    /\ LastIsMintTo
    /\ last.tx.from # ZERO_ADDRESS
    /\ deserialize_params(last.tx.payload) = None
    /\ last.res = NotGenesisAuthority

\* what a successful mint_to changes, and the overflowing mint
MintToEffect ==
    /\ (LastIsMintTo /\ IsOk(last.res)) =>
          /\ get_balance(state, LastTo) = get_balance(last.pre, LastTo) + LastAmount
          /\ \A a \in Address \ {LastTo} : get_balance(state, a) = get_balance(last.pre, a)
          /\ Nonces(state) = Nonces(last.pre)
    /\ (/\ LastIsMintTo
        /\ last.tx.from = ZERO_ADDRESS
        /\ deserialize_params(last.tx.payload) # None
        /\ get_balance(last.pre, LastTo) + LastAmount > U64Max)
          => last.res = Err("overflow on mint_to") /\ state = last.pre

\* C8 as stated: every successful mint_to strictly increases balance(to) by
\* exactly amount, changes no other balance and no nonce; an overflowing
\* mint fails with no change.
C8_MintStrictlyIncreases ==
    /\ MintToEffect
    /\ (LastIsMintTo /\ IsOk(last.res))
          => get_balance(state, LastTo) > get_balance(last.pre, LastTo)

\* C8 amended: every successful mint_to increases balance(to) by exactly
\* amount (strictly when amount > 0), changes no other balance and no
\* nonce; an overflowing mint fails with no change.
C8_MintIncreasesByAmount ==
    /\ MintToEffect
    /\ (LastIsMintTo /\ IsOk(last.res) /\ LastAmount > 0)
          => get_balance(state, LastTo) > get_balance(last.pre, LastTo)

\* a second mint onto a balance, next to an account with a balance and a nonce
C8_Witness ==
    /\ LastIsMintTo /\ IsOk(last.res)
    /\ LastAmount > 0
    /\ get_balance(last.pre, LastTo) > 0
    /\ \E a \in Address \ {LastTo} : get_balance(last.pre, a) > 0 /\ get_nonce(last.pre, a) > 0

---------------------------------------------------------------------------
(* nft_dgen.mint_dgen *)

OnlyArchons == Err("only Archons may mint D-GEN NFTs")

\* the ids that have metadata
Minted(st) == {id \in NftId : load_nft(st, id) # None}

\* C9: mint_dgen from an address that is not an Archon fails with the
\* 'only Archons' error and changes nothing: not the counter, not any
\* metadata, not any owner list.
C9_MintRequiresArchon ==
    (LastIsMintDgen /\ ~is_archon(last.pre, last.tx.from)) =>
        /\ last.res = OnlyArchons
        /\ state = last.pre
        /\ get_next_nft_id(state) = get_next_nft_id(last.pre)
        /\ Minted(state) = Minted(last.pre)
        /\ \A a \in Address : load_owner_nfts(state, a) = load_owner_nfts(last.pre, a)

\* tokens exist, another address is an Archon, and a non-Archon sends a
\* well-formed mint
C9_Witness ==
    /\ LastIsMintDgen
    /\ ~is_archon(last.pre, last.tx.from)
    /\ deserialize_mint_params(last.tx.payload) # None
    /\ get_next_nft_id(last.pre) >= 1
    /\ last.res = OnlyArchons

\* C10: the counter never decreases; a successful mint stores its metadata
\* under id = the counter before the mint, an id without metadata until
\* then, sets the counter to id + 1 and touches no other token; so the
\* counter is the number of successful mints and exactly the ids below it
\* have metadata; a mint at counter = u64::MAX fails with the id-overflow
\* error and writes nothing.
C10_CounterAndIds ==
    /\ get_next_nft_id(state) = hist.mints
    /\ Minted(state) = {id \in NftId : id < get_next_nft_id(state)}
    /\ last.op = "dispatch_tx" => get_next_nft_id(last.pre) <= get_next_nft_id(state)
    /\ (LastIsMintDgen /\ IsOk(last.res)) =>
          LET id == get_next_nft_id(last.pre) IN
          /\ get_next_nft_id(state) = id + 1
          /\ load_nft(last.pre, id) = None
          /\ load_nft(state, id) # None
          /\ load_nft(state, id)[1].creator = last.tx.from
          /\ \A j \in NftId \ {id} : load_nft(state, j) = load_nft(last.pre, j)
    /\ (/\ LastIsMintDgen
        /\ is_archon(last.pre, last.tx.from)
        /\ deserialize_mint_params(last.tx.payload) # None
        /\ get_next_nft_id(last.pre) = U64Max)
          => last.res = Err("nft id overflow") /\ state = last.pre

\* the counter has reached u64::MAX by successful mints and an Archon mints again
C10_Witness ==
    /\ LastIsMintDgen
    /\ hist.mints = U64Max
    /\ get_next_nft_id(last.pre) = U64Max
    /\ last.res = Err("nft id overflow")

---------------------------------------------------------------------------
(* nft_dgen: the owner index and transfer_nft *)

\* the ids in the list stored for an owner
OwnedIds(st, a) ==
    LET ids == load_owner_nfts(st, a) IN {ids[i] : i \in 1..Len(ids)}

\* how many times id occurs in the list stored for an owner
Occurrences(st, a, id) ==
    LET ids == load_owner_nfts(st, a) IN Cardinality({i \in 1..Len(ids) : ids[i] = id})

\* C11: in every state reached by successful or failing mint_dgen and
\* transfer_nft calls (transfers to the sender itself included), for every
\* minted id the list of the owner recorded in its metadata contains the id
\* (once) and the list of no other address contains it; the lists hold
\* minted ids only.
C11_OwnerIndexConsistent ==
    /\ \A id \in Minted(state) :
          LET owner == load_nft(state, id)[1].owner IN
          /\ id \in OwnedIds(state, owner)
          /\ Occurrences(state, owner, id) = 1
          /\ \A a \in Address \ {owner} : id \notin OwnedIds(state, a)
    /\ \A a \in Address : OwnedIds(state, a) \subseteq Minted(state)

LastNftParams == deserialize_transfer_nft_params(last.tx.payload)[1]

\* a successful transfer to the sender itself while another address, which
\* received its token by a transfer, holds a token too
C11_Witness ==
    /\ LastIsTransferNft /\ IsOk(last.res)
    /\ LastNftParams.to = last.tx.from
    /\ LastNftParams.token_id \in OwnedIds(state, last.tx.from)
    /\ \E a \in Address \ {last.tx.from} :
          \E id \in OwnedIds(state, a) : load_nft(state, id)[1].creator # a

\* C12: a successful transfer_nft(token_id, to) sets the owner in the
\* metadata of token_id to `to` and changes no other field of it, nor the
\* metadata of any other token; in every state the creator of a token is
\* the address that minted it.
C12_TransferChangesOwnerOnly ==
    /\ (LastIsTransferNft /\ IsOk(last.res)) =>
          LET id == LastNftParams.token_id
              before == load_nft(last.pre, id)
              after == load_nft(state, id)
          IN
          /\ before # None /\ after # None
          /\ after[1].owner = LastNftParams.to
          /\ after[1] = [before[1] EXCEPT !.owner = LastNftParams.to]
          /\ \A j \in NftId \ {id} : load_nft(state, j) = load_nft(last.pre, j)
    /\ \A id \in NftId :
          /\ (load_nft(state, id) # None) = (hist.minters[id] # None)
          /\ load_nft(state, id) # None =>
                load_nft(state, id)[1].creator = hist.minters[id][1]

\* a token that its creator no longer holds is transferred on to a third
\* address
C12_Witness ==
    /\ LastIsTransferNft /\ IsOk(last.res)
    /\ LET before == load_nft(last.pre, LastNftParams.token_id)[1] IN
          /\ before.owner # before.creator
          /\ LastNftParams.to # before.creator
          /\ LastNftParams.to # before.owner

NftNotFound == Err("NFT not found")
NotOwner == Err("only the current owner may transfer this NFT")

\* the metadata of every token and the list of every owner
NftView(st) ==
    [meta |-> [id \in NftId |-> load_nft(st, id)],
     lists |-> [a \in Address |-> load_owner_nfts(st, a)]]

\* C13: a transfer_nft (with a payload that decodes) of a token_id without
\* metadata fails with the not-found error, and one whose sender is not the
\* owner recorded in the metadata fails with the not-owner error; both leave
\* the metadata and every owner list unchanged; so whenever the owner of a
\* token changes, the operation was a successful transfer_nft sent by the
\* owner it had.
C13_TransferRequiresOwner ==
    /\ (LastIsTransferNft /\ deserialize_transfer_nft_params(last.tx.payload) # None) =>
          LET before == load_nft(last.pre, LastNftParams.token_id) IN
          /\ before = None =>
                last.res = NftNotFound /\ state = last.pre
          /\ (before # None /\ before[1].owner # last.tx.from) =>
                last.res = NotOwner /\ state = last.pre
          /\ ~IsOk(last.res) => NftView(state) = NftView(last.pre)
    /\ last.op = "dispatch_tx" =>
          \A id \in Minted(last.pre) :
              load_nft(state, id)[1].owner # load_nft(last.pre, id)[1].owner =>
                  /\ LastIsTransferNft /\ IsOk(last.res)
                  /\ LastNftParams.token_id = id
                  /\ last.tx.from = load_nft(last.pre, id)[1].owner

\* an Archon that holds a token of its own asks for a token held by another
\* address
C13_Witness ==
    /\ LastIsTransferNft
    /\ deserialize_transfer_nft_params(last.tx.payload) # None
    /\ load_nft(last.pre, LastNftParams.token_id) # None
    /\ load_nft(last.pre, LastNftParams.token_id)[1].owner # last.tx.from
    /\ is_archon(last.pre, last.tx.from)
    /\ OwnedIds(last.pre, last.tx.from) # {}
    /\ last.res = NotOwner

\* a transfer of an id above the counter while tokens exist
C13_WitnessNotFound ==
    /\ LastIsTransferNft
    /\ deserialize_transfer_nft_params(last.tx.payload) # None
    /\ load_nft(last.pre, LastNftParams.token_id) = None
    /\ Minted(last.pre) # {}
    /\ last.res = NftNotFound

---------------------------------------------------------------------------
(* State::execute_block *)

LastIsBlock == last.op = "execute_block"

\* the forge hash of the header of the last block meets its difficulty target
LastPowPasses ==
    LET h == last.block.header IN
    meets_difficulty(forge_hash(serialize_without_nonce(h), h.nonce),
                     h.difficulty_target)

\* C14: execute_block returns the PoW-verification error exactly when the
\* forge hash of the header does not meet header.difficulty_target; it then
\* dispatches no transaction and leaves the state unchanged; a header with
\* difficulty_target = u128::MAX always passes, and a block with that target
\* and an empty body succeeds and leaves the state unchanged.
C14_PowGate ==
    LastIsBlock =>
        /\ (last.res = PowVerificationFailed) <=> ~LastPowPasses
        /\ ~LastPowPasses => last.log = <<>> /\ state = last.pre
        /\ last.block.header.difficulty_target = U128Max => LastPowPasses
        /\ (last.block.header.difficulty_target = U128Max /\ last.block.body = <<>>)
              => IsOk(last.res) /\ state = last.pre

\* a block whose only transaction would succeed and change a state that is
\* not empty, under a header that does not meet its target
C14_Witness ==
    /\ LastIsBlock
    /\ ~LastPowPasses
    /\ last.pre # EmptyState
    /\ Len(last.block.body) = 1
    /\ LET r == dispatch_tx(last.block.body[1], last.pre, overflow_checks) IN
          IsOk(r.res) /\ r.st # last.pre
    /\ last.res = PowVerificationFailed

\* the easy header over an empty body, on a state that is not empty
C14_WitnessEasy ==
    /\ LastIsBlock
    /\ last.block = Block(EasyHeader, <<>>)
    /\ last.pre # EmptyState
    /\ IsOk(last.res)

\* txs dispatched one after another from st, each on the state the one
\* before it left
RECURSIVE ApplyAll(_, _)
ApplyAll(st, txs) ==
    IF txs = <<>> THEN st
    ELSE ApplyAll(dispatch_tx(Head(txs), st, overflow_checks).st, Tail(txs))

\* the result of body[k] on the state left by body[1..k-1]
ResultOf(st, body, k) ==
    dispatch_tx(body[k], ApplyAll(st, SubSeq(body, 1, k - 1)), overflow_checks).res

\* the positions of the body whose transaction fails in its turn
Failing(st, body) == {k \in 1..Len(body) : ~IsOk(ResultOf(st, body, k))}

FirstFailing(st, body) ==
    CHOOSE k \in Failing(st, body) : \A j \in Failing(st, body) : k <= j

LogTxs == [i \in 1..Len(last.log) |-> last.log[i].tx]

\* the mint of the body <<mint_to(A, m), transfer from A>> and its transfer
IsMintThenTransfer(body) ==
    /\ Len(body) = 2
    /\ IsCall(body[1], "bank_cgt", "mint_to") /\ body[1].from = ZERO_ADDRESS
    /\ IsCall(body[2], "bank_cgt", "transfer")
    /\ deserialize_params(body[1].payload)[1].to = body[2].from
    /\ deserialize_params(body[2].payload)[1].to # body[2].from

\* C15: within one execute_block the transactions are dispatched in body
\* order, each on the state holding the effects of all the ones before it:
\* when none fails in its turn the block succeeds, every transaction of the
\* body was dispatched, in order, and the state is the one the body leaves
\* when applied one transaction after another; a block
\* <<mint_to(A, m), transfer from A of a with fee f>> on a state where A holds
\* nothing and m >= a + f succeeds with balance(A) = m - a - f, and the
\* reversed body fails.
C15_BodyOrder ==
    (LastIsBlock /\ LastPowPasses) =>
        LET body == last.block.body IN
        /\ Len(last.log) <= Len(body)
        /\ LogTxs = SubSeq(body, 1, Len(last.log))
        /\ \A i \in 1..Len(last.log) :
              last.log[i].pre = ApplyAll(last.pre, SubSeq(body, 1, i - 1))
        /\ Failing(last.pre, body) = {} =>
              /\ IsOk(last.res)
              /\ LogTxs = body
              /\ state = ApplyAll(last.pre, body)
        /\ IsOk(last.res) => Failing(last.pre, body) = {}
        /\ (/\ IsMintThenTransfer(body)
            /\ get_balance(last.pre, body[2].from) = 0
            /\ get_nonce(last.pre, body[2].from) = body[2].nonce) =>
              LET m == deserialize_params(body[1].payload)[1].amount
                  a == deserialize_params(body[2].payload)[1].amount
                  to == deserialize_params(body[2].payload)[1].to
              IN (m >= a + body[2].fee /\ get_balance(last.pre, to) + a <= U64Max) =>
                    /\ IsOk(last.res)
                    /\ get_balance(state, body[2].from) = m - a - body[2].fee
        /\ (/\ Len(body) = 2
            /\ IsMintThenTransfer(<<body[2], body[1]>>)
            /\ get_balance(last.pre, body[1].from) = 0
            /\ deserialize_params(body[1].payload)[1].amount > 0) =>
              /\ ~IsOk(last.res)
              /\ get_balance(state, body[1].from) = 0

\* the mint, then the transfer that needs it, the fee included: A ends with
\* m - a - f
C15_Witness ==
    /\ LastIsBlock /\ LastPowPasses /\ IsOk(last.res)
    /\ IsMintThenTransfer(last.block.body)
    /\ get_balance(last.pre, last.block.body[2].from) = 0
    /\ last.block.body[2].fee > 0
    /\ get_balance(state, last.block.body[2].from) =
          deserialize_params(last.block.body[1].payload)[1].amount
            - deserialize_params(last.block.body[2].payload)[1].amount
            - last.block.body[2].fee
    /\ ~IsOk(dispatch_tx(last.block.body[2], last.pre, overflow_checks).res)

\* the reversed body: the transfer first, failing for want of the mint
C15_WitnessReversed ==
    /\ LastIsBlock /\ LastPowPasses
    /\ Len(last.block.body) = 2
    /\ IsMintThenTransfer(<<last.block.body[2], last.block.body[1]>>)
    /\ get_balance(last.pre, last.block.body[1].from) = 0
    /\ last.res = Err("insufficient balance for amount + fee")

\* C16: when transaction k of the body is the first to fail in its turn,
\* execute_block returns exactly the error of that transaction, the state
\* is the one transactions 1..k-1 left (nothing is rolled back), and the
\* transactions after k are not dispatched.
C16_FirstFailureStops ==
    (LastIsBlock /\ LastPowPasses /\ Failing(last.pre, last.block.body) # {}) =>
        LET body == last.block.body
            k == FirstFailing(last.pre, body)
        IN
        /\ last.res = ResultOf(last.pre, body, k)
        /\ ~IsOk(last.res)
        /\ state = ApplyAll(last.pre, SubSeq(body, 1, k - 1))
        /\ Len(last.log) = k
        /\ LogTxs = SubSeq(body, 1, k)
        /\ \A i \in 1..(k - 1) : IsOk(last.log[i].res)
        /\ last.log[k].res = last.res

\* the second of three transactions fails after the first changed the
\* state, and the third would have succeeded and changed it again
C16_Witness ==
    /\ LastIsBlock /\ LastPowPasses
    /\ Len(last.block.body) = 3
    /\ Failing(last.pre, last.block.body) # {}
    /\ FirstFailing(last.pre, last.block.body) = 2
    /\ state # last.pre
    /\ LET r == dispatch_tx(last.block.body[3], state, overflow_checks) IN
          IsOk(r.res) /\ r.st # state
    /\ ~IsOk(last.res)

---------------------------------------------------------------------------
(* Runtime::dispatch_tx *)

\* the module ids of Runtime::with_default_modules
KnownModuleIds ==
    {"bank_cgt", "avatars_profiles", "nft_dgen", "fabric_manager", "abyss_registry"}

\* The calls of each module. No call of fabric_manager or abyss_registry is
\* dispatched here, so every call id sent to them is none of their calls.
ModuleCalls(module_id) ==
    CASE module_id = "bank_cgt" -> {"transfer", "mint_to"}
      [] module_id = "avatars_profiles" -> {"claim_archon"}
      [] module_id = "nft_dgen" -> {"mint_dgen", "transfer_nft"}
      [] OTHER -> {}

\* what the module named by tx.module_id returns for tx on st
ModuleResult(tx, st) ==
    CASE tx.module_id = "bank_cgt" ->
            bank_cgt_dispatch(tx.call_id, tx, st, overflow_checks)
      [] tx.module_id = "avatars_profiles" ->
            avatars_profiles_dispatch(tx.call_id, tx, st)
      [] tx.module_id = "nft_dgen" -> nft_dgen_dispatch(tx.call_id, tx, st)
      [] tx.module_id \in {"fabric_manager", "abyss_registry"} ->
            registry_dispatch(tx.module_id, tx.call_id, tx, st)

IsUnknownModuleError(res) ==
    Len(res) = 3 /\ res[1] = "Err" /\ res[2] = "Unknown module"

\* C17: dispatch_tx on a runtime with the default modules returns an
\* unknown-module error exactly when tx.module_id is none of bank_cgt,
\* avatars_profiles, nft_dgen, fabric_manager and abyss_registry; then, and
\* when the module is known but the call id is none of its calls, it fails
\* and the state is unchanged; for a known module the result and the state
\* are exactly the ones the module's dispatch gives.
C17_UnknownModule ==
    last.op = "dispatch_tx" =>
        /\ IsUnknownModuleError(last.res) <=> last.tx.module_id \notin KnownModuleIds
        /\ last.tx.module_id \notin KnownModuleIds =>
              /\ last.res = <<"Err", "Unknown module", last.tx.module_id>>
              /\ state = last.pre
        /\ (/\ last.tx.module_id \in KnownModuleIds
            /\ last.tx.call_id \notin ModuleCalls(last.tx.module_id)) =>
              ~IsOk(last.res) /\ state = last.pre
        /\ last.tx.module_id \in KnownModuleIds =>
              /\ last.res = ModuleResult(last.tx, last.pre).res
              /\ state = ModuleResult(last.tx, last.pre).st

\* a module id that is a prefix of a registered one, with the call id of a
\* registered call, on a state that holds balances and a nonce
C17_Witness ==
    /\ last.op = "dispatch_tx"
    /\ last.tx.module_id = "bank" /\ last.tx.call_id = "transfer"
    /\ \E a \in Address : get_balance(last.pre, a) > 0 /\ get_nonce(last.pre, a) > 0
    /\ last.res = <<"Err", "Unknown module", "bank">>

\* a call id that fabric_manager does not have, on a state that is not empty
C17_WitnessUnknownCall ==
    /\ last.op = "dispatch_tx"
    /\ last.tx.module_id = "fabric_manager"
    /\ last.pre # EmptyState
    /\ ~IsOk(last.res) /\ ~IsUnknownModuleError(last.res)

---------------------------------------------------------------------------
(* init_genesis_state *)

LastIsInit == last.op = "init_genesis_state"

\* the key demiurge/genesis_initialized is present
FlagSet(st) == get_raw(st, <<"demiurge/genesis_initialized">>) # None

\* C18: after a run of init_genesis_state in which no backend write failed,
\* a second run on the state it left changes nothing, whatever the backend
\* does then; a run that finds the flag returns Ok without writing, and the
\* genesis balance is not credited again.
C18_GenesisIdempotent ==
    /\ (LastIsInit /\ last.fault = 0) =>
          \A f \in WriteFaults :
              LET again == init_genesis_state(state, f, overflow_checks) IN
              /\ again.st = state
              /\ ~again.minted
              /\ IsOk(last.res) => IsOk(again.res)
    /\ (LastIsInit /\ FlagSet(last.pre)) =>
          /\ IsOk(last.res)
          /\ state = last.pre
          /\ get_balance(state, GENESIS_ARCHON_ADDRESS)
                = get_balance(last.pre, GENESIS_ARCHON_ADDRESS)

\* a later start of a node whose genesis identity has spent from its
\* balance: the run finds the flag
C18_Witness ==
    /\ LastIsInit
    /\ FlagSet(last.pre)
    /\ hist.genesis_mints = 1
    /\ get_balance(last.pre, GENESIS_ARCHON_ADDRESS) < GENESIS_ARCHON_INITIAL_BALANCE
    /\ get_nonce(last.pre, GENESIS_ARCHON_ADDRESS) > 0
    /\ IsOk(last.res)

\* C19: over any sequence of init_genesis_state runs, runs that return an
\* error because a backend write failed and runs between other operations
\* included, the genesis mint takes effect at most once.
C19_GenesisMintAtMostOnce == hist.genesis_mints <= 1

\* the state a second genesis mint leaves: the flag set and the genesis
\* identity holding two genesis balances without any other credit
C19_DoubleMint ==
    /\ LastIsInit /\ IsOk(last.res)
    /\ FlagSet(state)
    /\ hist.genesis_mints = 2
    /\ get_balance(state, GENESIS_ARCHON_ADDRESS) = 2 * GENESIS_ARCHON_INITIAL_BALANCE

\* C20: on a state without the flag, a run of init_genesis_state (no backend
\* failure) leaves exactly the state of dispatching, through dispatch_tx, a
\* bank_cgt.mint_to of the genesis balance from the zero address to the
\* genesis identity, then an avatars_profiles.claim_archon from the genesis
\* identity, then writing the flag, each step taken when the one before it
\* succeeded; on the empty state the genesis identity holds the genesis
\* balance, is an Archon, and no other key is set.
C20_GenesisAsDispatch ==
    (LastIsInit /\ ~FlagSet(last.pre) /\ last.fault = 0) =>
        LET mint_tx == Tx(0, 0, "bank_cgt", "mint_to",
                          serialize_params(170, GENESIS_ARCHON_INITIAL_BALANCE), 0)
            claim_tx == Tx(170, 0, "avatars_profiles", "claim_archon", <<>>, 0)
            r1 == dispatch_tx(mint_tx, last.pre, overflow_checks)
            r2 == dispatch_tx(claim_tx, r1.st, overflow_checks)
        IN
        /\ IsOk(last.res) <=> (IsOk(r1.res) /\ IsOk(r2.res))
        /\ state = IF ~IsOk(r1.res) THEN r1.st
                   ELSE IF ~IsOk(r2.res) THEN r2.st
                   ELSE put_raw(r2.st, <<"demiurge/genesis_initialized">>, <<1>>)
        /\ last.pre = EmptyState =>
              /\ IsOk(last.res)
              /\ get_balance(state, 170) = GENESIS_ARCHON_INITIAL_BALANCE
              /\ is_archon(state, 170)
              /\ DOMAIN state = {balance_key(170), archon_flag_key(170),
                                 <<"demiurge/genesis_initialized">>}

\* the first start of a node on an empty database
C20_Witness ==
    /\ LastIsInit /\ last.fault = 0
    /\ last.pre = EmptyState
    /\ IsOk(last.res)
    /\ FlagSet(state)

---------------------------------------------------------------------------
(* C21: the in-memory State is a map *)

\* C21: on the in-memory State, right after put_raw(k, v) get_raw(k) is
\* Some(v) and every other key reads as it did before the call; get_raw(k)
\* returns the value of the latest put_raw(k, _), and None when k was never
\* written.
C21_InMemoryMap ==
    /\ last.op = "put_raw" =>
        /\ get_raw(state, last.arg[1]) = Some(last.arg[2])
        /\ \A k \in (DOMAIN state \cup DOMAIN last.pre \cup RawKeys) \ {last.arg[1]} :
               get_raw(state, k) = get_raw(last.pre, k)
    /\ last.op = "get_raw" => last.ret = hist.written[last.arg[1]]

\* a key written before is overwritten with another value while a second
\* key holds a value
C21_Witness ==
    /\ last.op = "put_raw"
    /\ get_raw(last.pre, last.arg[1]) \notin {None, Some(last.arg[2])}
    /\ \E k \in RawKeys \ {last.arg[1]} : get_raw(state, k) # None

\* a key that was never written is read while another key holds a value
C21_WitnessMissing ==
    /\ last.op = "get_raw"
    /\ hist.written[last.arg[1]] = None
    /\ state # EmptyState

---------------------------------------------------------------------------
(* C22: the Archon flag *)

LastIsClaimArchon == LastIs("avatars_profiles", "claim_archon")

\* C22: in every reachable state is_archon(a) holds exactly for the
\* addresses a from which a claim_archon has succeeded (none on the fresh
\* state), and a claim from an address that is an Archon already succeeds
\* and leaves the state as it was.
C22_ArchonIffClaimed ==
    /\ \A a \in Address : is_archon(state, a) <=> a \in hist.claimed
    /\ (LastIsClaimArchon
           /\ get_raw(last.pre, archon_flag_key(last.tx.from)) = Some(<<1>>))
          => (IsOk(last.res) /\ state = last.pre)

\* C22: no step of any operation takes the Archon role from an address.
C22_NeverReset ==
    [][\A a \in Address : is_archon(state, a) => is_archon(state', a)]_vars

\* a repeated claim of an Archon, while another address is none
C22_Witness ==
    /\ LastIsClaimArchon
    /\ IsOk(last.res)
    /\ get_raw(last.pre, archon_flag_key(last.tx.from)) = Some(<<1>>)
    /\ \E a \in Address : ~is_archon(state, a)

---------------------------------------------------------------------------
(* C23 - C26: the Aeon profile helpers *)

ProfileAlreadyExists == Err("Aeon profile already exists for this address")

\* the stored profile of an address, read from the raw value
StoredProfile(st, address) == get_raw(st, aeon_profile_key(address))

\* every key but the profile of the address reads as before the last call
OtherKeysUnchanged(address) ==
    \A k \in (DOMAIN state \cup DOMAIN last.pre) \ {aeon_profile_key(address)} :
        get_raw(state, k) = get_raw(last.pre, k)

\* C23: create_aeon_profile on an address that has a profile fails with
\* ProfileAlreadyExists and leaves the state, the stored profile included,
\* as it was; on an address without one it stores and returns a profile with
\* gnosis_xp 0, syzygy_score 0, ascension_level 1, no badges and
\* created_at_height = current_height, and writes no other key.
C23_CreateProfile ==
    last.op = "create_aeon_profile" =>
        IF StoredProfile(last.pre, last.arg[1]) # None
        THEN /\ last.res = ProfileAlreadyExists
             /\ last.ret = None
             /\ state = last.pre
        ELSE /\ IsOk(last.res)
             /\ last.ret # None
             /\ last.ret[1] =
                    [address |-> last.arg[1], display_name |-> last.arg[2],
                     bio |-> last.arg[3], gnosis_xp |-> 0, syzygy_score |-> 0,
                     ascension_level |-> 1, badges |-> <<>>,
                     created_at_height |-> last.arg[4]]
             /\ get_aeon_profile(state, last.arg[1]) = last.ret
             /\ OtherKeysUnchanged(last.arg[1])

\* a second create on a profile that has gained xp, score and a badge
C23_Witness ==
    /\ last.op = "create_aeon_profile"
    /\ last.res = ProfileAlreadyExists
    /\ \E p \in {get_aeon_profile(last.pre, last.arg[1])} :
          /\ p # None
          /\ p[1].gnosis_xp > 0
          /\ p[1].syzygy_score > 0
          /\ p[1].badges # <<>>
          /\ p[1].created_at_height # last.arg[4]

\* a first create at a height above 0, next to another profile
C23_WitnessCreated ==
    /\ last.op = "create_aeon_profile"
    /\ IsOk(last.res)
    /\ last.arg[4] > 0
    /\ last.pre # EmptyState

LastIsAdd == last.op \in {"add_gnosis_xp", "add_syzygy_score"}

\* the counter the last add_* call addresses, and its overflow error
LastCounter(profile) ==
    IF last.op = "add_gnosis_xp" THEN profile.gnosis_xp ELSE profile.syzygy_score
LastOverflow ==
    IF last.op = "add_gnosis_xp" THEN Err("Gnosis XP overflow")
    ELSE Err("Syzygy Score overflow")

\* the profile with amount added to the counter of the last add_* call
LastAdded(profile, amount) ==
    IF last.op = "add_gnosis_xp"
    THEN [address |-> profile.address, display_name |-> profile.display_name,
          bio |-> profile.bio, gnosis_xp |-> profile.gnosis_xp + amount,
          syzygy_score |-> profile.syzygy_score,
          ascension_level |-> profile.ascension_level, badges |-> profile.badges,
          created_at_height |-> profile.created_at_height]
    ELSE [address |-> profile.address, display_name |-> profile.display_name,
          bio |-> profile.bio, gnosis_xp |-> profile.gnosis_xp,
          syzygy_score |-> profile.syzygy_score + amount,
          ascension_level |-> profile.ascension_level, badges |-> profile.badges,
          created_at_height |-> profile.created_at_height]

\* C24: add_gnosis_xp and add_syzygy_score fail with ProfileNotFound when
\* the address has no profile and with their Overflow error when the sum
\* passes u64::MAX, both without a change of the state; otherwise they
\* succeed, the addressed counter grows by amount, and every other field of
\* the profile and every other key stay as they were.
C24_AddCounter ==
    LastIsAdd =>
        LET before == get_aeon_profile(last.pre, last.arg[1]) IN
        IF before = None
        THEN last.res = ProfileNotFound /\ state = last.pre
        ELSE IF LastCounter(before[1]) + last.arg[2] > ProfileU64Max
        THEN last.res = LastOverflow /\ state = last.pre
        ELSE /\ IsOk(last.res)
             /\ get_aeon_profile(state, last.arg[1])
                    = Some(LastAdded(before[1], last.arg[2]))
             /\ OtherKeysUnchanged(last.arg[1])

\* a successful add_gnosis_xp of a positive amount on a profile whose other
\* counter differs and that holds a badge, next to the profile of a second
\* address
C24_Witness ==
    /\ last.op = "add_gnosis_xp"
    /\ IsOk(last.res)
    /\ last.arg[2] > 0
    /\ \E p \in {get_aeon_profile(state, last.arg[1])} :
          /\ p[1].syzygy_score # p[1].gnosis_xp
          /\ p[1].badges # <<>>
    /\ \E a \in ProfileAddrs \ {last.arg[1]} : get_aeon_profile(state, a) # None

\* an add that overflows a counter above 0
C24_WitnessOverflow ==
    /\ LastIsAdd
    /\ last.res = LastOverflow
    /\ last.arg[2] < ProfileU64Max

\* an add on an address without a profile
C24_WitnessNotFound ==
    /\ LastIsAdd
    /\ last.res = ProfileNotFound
    /\ last.pre # EmptyState

LastIsRecompute == last.op = "recompute_ascension"

\* gnosis_xp + 2 * syzygy_score, in unbounded integers
TotalScore(profile) == profile.gnosis_xp + 2 * profile.syzygy_score

\* C25: after a successful recompute_ascension the stored ascension_level
\* is 1 + (gnosis_xp + 2 * syzygy_score) / ASCENSION_STEP (integer division,
\* so at least 1) for every value of the two counters, and the call fails
\* with an Overflow error and an unchanged state when 2 * syzygy_score or the
\* sum passes u64::MAX.
C25_AscensionFormula ==
    (LastIsRecompute /\ get_aeon_profile(last.pre, last.arg[1]) # None) =>
        LET before == get_aeon_profile(last.pre, last.arg[1])[1] IN
        IF 2 * before.syzygy_score > ProfileU64Max
        THEN last.res = Err("Syzygy score multiplication overflow")
             /\ state = last.pre
        ELSE IF TotalScore(before) > ProfileU64Max
        THEN last.res = Err("Total score overflow") /\ state = last.pre
        ELSE IsOk(last.res) =>
             LET after == get_aeon_profile(state, last.arg[1])[1] IN
             /\ after.ascension_level = 1 + (TotalScore(before) \div ASCENSION_STEP)
             /\ after.ascension_level >= 1

\* C25, what the code does instead: a successful recompute_ascension that
\* stores a level below the formula, the quotient having lost its high bits
\* in the cast to u32
C25_Truncated ==
    /\ LastIsRecompute
    /\ IsOk(last.res)
    /\ \E p \in {get_aeon_profile(state, last.arg[1])[1]} :
          /\ TotalScore(p) \div ASCENSION_STEP > U32Max
          /\ p.ascension_level = 1 + ((TotalScore(p) \div ASCENSION_STEP) % (U32Max + 1))

\* C25, in a build without overflow checks: a successful
\* recompute_ascension that stores level 0
C25_LevelZero ==
    /\ LastIsRecompute
    /\ IsOk(last.res)
    /\ get_aeon_profile(state, last.arg[1])[1].ascension_level = 0

\* number of "Luminary" entries in a badge list
LuminaryCount(badges) == Cardinality({i \in 1..Len(badges) : badges[i] = "Luminary"})

\* C26: update_badges appends "Luminary" exactly when syzygy_score is at
\* least LUMINARY_SYZYGY_THRESHOLD and the badge is absent, and changes
\* nothing else; in every reachable state a badge list holds "Luminary" at
\* most once, and only on a profile whose syzygy_score has reached the
\* threshold.
C26_LuminaryBadge ==
    /\ (last.op = "update_badges" /\ get_aeon_profile(last.pre, last.arg[1]) # None) =>
        LET before == get_aeon_profile(last.pre, last.arg[1])[1]
            after == get_aeon_profile(state, last.arg[1])[1]
        IN
        /\ IsOk(last.res)
        /\ after.badges =
              IF before.syzygy_score >= LUMINARY_SYZYGY_THRESHOLD
                 /\ LuminaryCount(before.badges) = 0
              THEN before.badges \o <<"Luminary">>
              ELSE before.badges
        /\ \A f \in DOMAIN before \ {"badges"} : after[f] = before[f]
        /\ OtherKeysUnchanged(last.arg[1])
    /\ \A a \in ProfileAddrs :
        LET p == get_aeon_profile(state, a) IN
        p # None =>
            /\ LuminaryCount(p[1].badges) <= 1
            /\ LuminaryCount(p[1].badges) = 1
                  => p[1].syzygy_score >= LUMINARY_SYZYGY_THRESHOLD

\* C26: a badge a profile holds stays in its list, at its position, in
\* every step.
C26_BadgeNeverRemoved ==
    [][\A a \in ProfileAddrs :
          LET p == get_aeon_profile(state, a)
              q == get_aeon_profile(state', a)
          IN p # None =>
                /\ q # None
                /\ Len(q[1].badges) >= Len(p[1].badges)
                /\ SubSeq(q[1].badges, 1, Len(p[1].badges)) = p[1].badges]_vars

\* a repeated update_badges on a profile that holds the badge, the score
\* having grown since
C26_Witness ==
    /\ last.op = "update_badges"
    /\ IsOk(last.res)
    /\ \E p \in {get_aeon_profile(last.pre, last.arg[1])[1]} :
          /\ LuminaryCount(p.badges) = 1
          /\ p.syzygy_score > LUMINARY_SYZYGY_THRESHOLD

\* update_badges just below the threshold
C26_WitnessBelow ==
    /\ last.op = "update_badges"
    /\ IsOk(last.res)
    /\ \E p \in {get_aeon_profile(state, last.arg[1])[1]} :
          /\ p.syzygy_score = LUMINARY_SYZYGY_THRESHOLD - 1
          /\ p.badges = <<>>

\* the call that appends the badge, at the threshold
C26_WitnessAppended ==
    /\ last.op = "update_badges"
    /\ IsOk(last.res)
    /\ get_aeon_profile(last.pre, last.arg[1])[1].badges = <<>>
    /\ get_aeon_profile(state, last.arg[1])[1].badges = <<"Luminary">>
    /\ get_aeon_profile(state, last.arg[1])[1].syzygy_score = LUMINARY_SYZYGY_THRESHOLD

---------------------------------------------------------------------------
(* C27, C28: threads on the Node *)

ThreadsAt(pcs) == {t \in Threads : node.th[t].pc \in pcs}

\* C27: under every interleaving of submit_transaction calls the mempool
\* holds the submitted transactions, unvalidated, in the order in which the
\* calls took the mempool lock, each once: its length is the number of calls
\* that have returned plus the call that has pushed and not yet returned, no
\* call but the holder of the lock is past the lock, and the State is not
\* touched.
C27_MempoolOrder ==
    /\ node.mempool = [i \in 1..Len(node.mempool) |-> node.order[i][2]]
    /\ Len(node.order) = Len(node.mempool) + Cardinality(ThreadsAt({"submit_locked"}))
    /\ Len(node.mempool) = node.completed + Cardinality(ThreadsAt({"submit_pushed"}))
    /\ ThreadsAt({"submit_locked", "submit_pushed"}) \subseteq {node.mempool_lock}
    /\ state = GenesisState

\* two calls of different threads have returned, with different
\* transactions, one of them undecodable, and a third holds the lock before
\* its push
C27_Witness ==
    /\ node.completed = 2
    /\ node.mempool[1] # node.mempool[2]
    /\ node.order[1][1] # node.order[2][1]
    /\ \E i \in 1..2 : node.mempool[i].payload = Malformed
    /\ ThreadsAt({"submit_locked"}) # {}

InClosure == ThreadsAt({"reading", "read_done", "writing"})

\* C28: under every interleaving of with_state and with_state_mut calls at
\* most one closure is inside the State, and it is the holder of the State
\* mutex; while a reading closure is inside, the State is the State the last
\* closure left on its return, and what the reader has read is the value of
\* that State: no reader sees the State between two writes of a closure.
C28_ClosuresExclusive ==
    /\ Cardinality(InClosure) <= 1
    /\ InClosure \subseteq {node.state_lock}
    /\ \A t \in ThreadsAt({"reading", "read_done"}) : state = node.committed
    /\ \A t \in ThreadsAt({"read_done"}) :
          node.th[t].obs = node_read(node.th[t].read, node.committed)
    /\ ThreadsAt({"writing"}) = {} => state = node.committed

\* a mint closure has written the counter and the metadata of token 0 and
\* not yet the owner index, while a reader of that index and a reader of the
\* metadata wait for the mutex
C28_Witness ==
    /\ \E t \in ThreadsAt({"writing"}) : Len(node.th[t].todo) = 1
    /\ get_nft(state, 0) # None
    /\ get_nfts_by_owner(state, GENESIS_ARCHON_ADDRESS) = <<>>
    /\ \E t \in ThreadsAt({"with_state"}) : node.th[t].read[1] = "get_nfts_by_owner"
    /\ \E t \in ThreadsAt({"with_state"}) : node.th[t].read[1] = "get_nft"

\* a transfer closure has debited the sender and not yet credited the
\* recipient, while a reader of the recipient's balance waits
C28_WitnessTransfer ==
    /\ \E t \in ThreadsAt({"writing"}) :
          /\ IsCall(node.th[t].tx, "bank_cgt", "transfer")
          /\ Len(node.th[t].todo) = 2
    /\ get_balance(state, GENESIS_ARCHON_ADDRESS)
          < get_balance(node.committed, GENESIS_ARCHON_ADDRESS)
    /\ \E t \in ThreadsAt({"with_state"}) :
          node.th[t].read = <<"get_balance_cgt", USER_ADDRESS>>

\* a reader has read, inside its closure, a State changed by closures before
C28_WitnessRead ==
    \E t \in ThreadsAt({"read_done"}) :
        /\ node.th[t].read[1] = "get_nft"
        /\ node.th[t].obs # <<None>>

---------------------------------------------------------------------------
(* C29: panics *)

IsPanic(res) == res[1] = "Panic"

\* C29: no profile helper panics, whatever the amounts added to the two
\* counters before: every call returns Ok or Err.
C29_NoPanic == ~IsPanic(last.res)

\* C29, what the code does instead: aeon_recordSyzygy panics inside its
\* with_state_mut closure, after it has stored the new score and xp
C29_PanicInRpc ==
    /\ last.op = "record_syzygy"
    /\ IsPanic(last.res)
    /\ state # last.pre
    /\ overflow_checks

---------------------------------------------------------------------------
(* C30: backend read failures *)

\* the keys whose value the transaction needs on the State st: mint_to reads
\* the recipient's balance; transfer reads the sender's nonce and, when the
\* nonce matches, both balances
KeysNeeded(tx, st) ==
    LET params == deserialize_params(tx.payload)[1] IN
    IF IsCall(tx, "bank_cgt", "mint_to") THEN {balance_key(params.to)}
    ELSE {nonce_key(tx.from)}
         \cup (IF tx.nonce = get_nonce(st, tx.from)
               THEN {balance_key(tx.from), balance_key(params.to)}
               ELSE {})

\* C30: when the backend fails to read a key an operation needs, the
\* operation fails with a storage error and writes nothing; it does not go
\* on as if the key were absent.
C30_ReadFailurePropagates ==
    (last.op = "rocks_dispatch" /\ last.rfault \cap KeysNeeded(last.tx, last.pre) # {})
        => (last.res = StorageError /\ state = last.pre)

\* C30, what the code does instead: a mint_to whose read of the recipient's
\* balance fails returns Ok and overwrites the balance with the amount
C30_BalanceOverwritten ==
    /\ last.op = "rocks_dispatch"
    /\ IsCall(last.tx, "bank_cgt", "mint_to")
    /\ last.rfault = {balance_key(LastTo)}
    /\ IsOk(last.res)
    /\ get_balance(last.pre, LastTo) > 0
    /\ get_balance(state, LastTo) = LastAmount

\* C30, what the code does instead: a transfer whose read of the sender's
\* nonce fails is accepted with nonce 0 again, and the stored nonce goes back
C30_NonceReset ==
    /\ last.op = "rocks_dispatch"
    /\ IsCall(last.tx, "bank_cgt", "transfer")
    /\ last.rfault = {nonce_key(last.tx.from)}
    /\ IsOk(last.res)
    /\ get_nonce(last.pre, last.tx.from) > last.tx.nonce
    /\ get_nonce(state, last.tx.from) <= get_nonce(last.pre, last.tx.from)

---------------------------------------------------------------------------
(* C31: each module writes under its own prefixes *)

\* the keys whose value differs between two States
ChangedKeys(pre, post) ==
    {k \in DOMAIN pre \cup DOMAIN post : get_raw(pre, k) # get_raw(post, k)}

IsPrefixOf(p, bytes) == Len(p) <= Len(bytes) /\ SubSeq(bytes, 1, Len(p)) = p

\* the prefixes the claim gives to each module, and the genesis key
OwnPrefixes(module_id) ==
    CASE module_id = "bank_cgt" ->
            {prefix_bytes("bank:balance:"), prefix_bytes("bank:nonce:")}
      [] module_id = "avatars_profiles" ->
            {prefix_bytes("avatars:archon:"), prefix_bytes("aeon/profile:")}
      [] module_id = "nft_dgen" ->
            {prefix_bytes("nft:token:"), prefix_bytes("nft:counter"),
             prefix_bytes("nft:owner:")}
      [] module_id = "genesis" -> {prefix_bytes("demiurge/genesis_initialized")}
      [] OTHER -> {}

Owners == {"bank_cgt", "avatars_profiles", "nft_dgen", "genesis"}

\* the modules whose prefixes the bytes of a key start with
OwnersOf(key) ==
    LET bytes == key_bytes(key)
    IN {m \in Owners : \E p \in OwnPrefixes(m) : IsPrefixOf(p, bytes)}

\* every key the key functions of the modules can build, and the genesis key
ModuleKeys ==
    {balance_key(a) : a \in Address} \cup {nonce_key(a) : a \in Address}
    \cup {archon_flag_key(a) : a \in Address} \cup {aeon_profile_key(a) : a \in Address}
    \cup {owner_nfts_key(a) : a \in Address} \cup {nft_key(id) : id \in NftId}
    \cup {KEY_NFT_COUNTER, KEY_GENESIS_INITIALIZED}

KeyOwners == [k \in ModuleKeys |-> OwnersOf(k)]
KeyBytes == [k \in ModuleKeys |-> key_bytes(k)]

\* keys built from different prefixes, addresses or ids differ as bytes
KeysInjective == \A k1, k2 \in ModuleKeys : KeyBytes[k1] = KeyBytes[k2] => k1 = k2

\* the modules that may write during the last operation
LastWriters ==
    CASE last.op \in {"dispatch_tx", "rocks_dispatch"} -> {last.tx.module_id}
      [] last.op = "init_genesis_state" -> {"bank_cgt", "avatars_profiles", "genesis"}
      [] last.op \in {"create_aeon_profile", "add_gnosis_xp", "add_syzygy_score",
                      "recompute_ascension", "update_badges", "record_syzygy"} ->
            {"avatars_profiles"}
      [] OTHER -> {}

\* C31: every stored key is one a key function builds; every key the last
\* call changed lies, as bytes, under a prefix of the module that was called
\* (for genesis init: of bank_cgt, avatars_profiles, or the genesis key); the
\* bytes of every stored key lie under the prefixes of exactly one module;
\* and two keys built from different prefixes, addresses or ids have
\* different bytes.
C31_OwnPrefixesOnly ==
    /\ DOMAIN state \subseteq ModuleKeys
    /\ last.op \notin {"idle", "execute_block", "put_raw", "get_raw"} =>
          \A k \in ChangedKeys(last.pre, state) : KeyOwners[k] \subseteq LastWriters
    /\ \A k \in DOMAIN state : Cardinality(KeyOwners[k]) = 1
    /\ KeysInjective

\* the state holds keys of all three modules and the last call, a mint,
\* wrote the three keys of nft_dgen
C31_Witness ==
    /\ LastIsMintDgen
    /\ Cardinality(ChangedKeys(last.pre, state)) = 3
    /\ {KeyOwners[k] : k \in DOMAIN state}
          = {{"bank_cgt"}, {"avatars_profiles"}, {"nft_dgen"}}

---------------------------------------------------------------------------
(* C32 *)

\* C32: State only appends and overwrites: no step of any operation makes a
\* key that is present absent.
C32_NeverAbsent == [][DOMAIN state \subseteq DOMAIN state']_vars

\* a transfer_nft has emptied the owner list of the sender: the key of the
\* list is still present, with the empty list, beside the metadata and the
\* archon flag written before
C32_Witness ==
    /\ LastIsTransferNft
    /\ IsOk(last.res)
    /\ last.tx.from # LastNftParams.to
    /\ get_raw(state, owner_nfts_key(last.tx.from)) = Some(serialize_ids(<<>>))
    /\ DOMAIN last.pre \subseteq DOMAIN state
    /\ \E k \in DOMAIN last.pre : last.pre[k] # state[k]

---------------------------------------------------------------------------
(* C33 *)

\* the handler of thread t has built its response
RpcDone(t) == node.th[t].pc = "rpc_done"

\* C33: every NFT in a response of cgt_getNftsByOwner for address a has its
\* metadata present and owned by a, whatever with_state_mut closures ran
\* beside the handler.
C33_ConsistentSnapshot ==
    \A t \in Threads : RpcDone(t) =>
        \A i \in 1..Len(node.th[t].nfts) :
            /\ node.th[t].nfts[i].meta # None
            /\ node.th[t].nfts[i].meta[1].owner = node.th[t].owner[1]

\* a response for a lists token 0 with the owner a transfer_nft gave it
\* between the two with_state calls of the handler
C33_StaleOwner ==
    \E t \in Threads :
        /\ RpcDone(t)
        /\ node.th[t].nfts # <<>>
        /\ node.th[t].nfts[1].meta # None
        /\ node.th[t].nfts[1].meta[1].owner # node.th[t].owner[1]

\* the metadata of a listed NFT is never missing: mint_dgen stores it
\* before the owner list and nothing removes it
C33_NeverMissing ==
    \A t \in Threads : \A i \in 1..Len(node.th[t].nfts) :
        node.th[t].nfts[i].meta # None

---------------------------------------------------------------------------
(* C34 *)

RECURSIVE SumBalances(_, _)
SumBalances(st, addrs) ==
    IF addrs = {} THEN 0
    ELSE LET a == CHOOSE x \in addrs : TRUE
         IN get_balance(st, a) + SumBalances(st, addrs \ {a})

\* C34: the sum of all balances is the sum of the amounts of the successful
\* mint_to calls minus the sum of the fees of the successful transfers.
C34_SupplyEquation ==
    SumBalances(state, Address) = hist.minted_cgt - hist.burned_fees

\* a successful transfer to the sender itself has added its amount to the
\* supply
C34_SelfTransferMints ==
    /\ LastIsTransfer
    /\ IsOk(last.res)
    /\ LastTo = last.tx.from
    /\ LastAmount > 0
    /\ SumBalances(last.pre, Address) = hist.minted_cgt - hist.burned_fees + last.tx.fee
    /\ SumBalances(state, Address) = SumBalances(last.pre, Address) + LastAmount

\* without a transfer to the sender itself the equation holds: a fee has
\* been burned
C34_FeeBurned ==
    /\ LastIsTransfer
    /\ IsOk(last.res)
    /\ LastTo # last.tx.from
    /\ last.tx.fee > 0
    /\ SumBalances(state, Address) = hist.minted_cgt - hist.burned_fees

---------------------------------------------------------------------------
(* C35 *)

\* the successful transfers with the sender and nonce of the last one that
\* came before it
PriorDebits ==
    hist.debits[last.tx.from][last.tx.nonce] - (IF IsOk(last.res) THEN 1 ELSE 0)

\* C35: once a transfer has succeeded, every later dispatch of a transfer
\* with its sender and nonce and a payload that decodes (the same transaction
\* again, in particular) fails with the invalid-nonce error and changes
\* nothing, so a (from, nonce) pair debits the sender at most once.
C35_ReplayRejected ==
    /\ \A a \in Address : \A n \in TxNonces : hist.debits[a][n] <= 1
    /\ (LastIsTransfer /\ PriorDebits >= 1
           /\ deserialize_params(last.tx.payload) # None) =>
          /\ last.res = ErrInvalidNonce(get_nonce(last.pre, last.tx.from), last.tx.nonce)
          /\ state = last.pre

\* a transfer that moved a token is dispatched a second time, after a
\* further transfer of the same sender
C35_Witness ==
    /\ LastIsTransfer
    /\ PriorDebits = 1
    /\ last.tx.nonce = 0
    /\ deserialize_params(last.tx.payload) # None
    /\ LastAmount > 0
    /\ get_balance(state, last.tx.from) >= LastAmount + last.tx.fee
    /\ get_nonce(state, last.tx.from) = 2
    /\ ~IsOk(last.res)

---------------------------------------------------------------------------
(* C36 *)

\* C36: the creator recorded in the metadata of every minted NFT is the
\* sender of the mint and is an Archon in the current state.
C36_CreatorIsArchon ==
    \A id \in Minted(state) :
        /\ Some(load_nft(state, id)[1].creator) = hist.minters[id]
        /\ is_archon(state, load_nft(state, id)[1].creator)

\* a token has been transferred to an address that is no Archon: its
\* creator still is one, while other addresses are not
C36_Witness ==
    /\ LastIsTransferNft
    /\ IsOk(last.res)
    /\ ~is_archon(state, LastNftParams.to)
    /\ load_nft(state, LastNftParams.token_id)[1].owner = LastNftParams.to
    /\ is_archon(state, load_nft(state, LastNftParams.token_id)[1].creator)

---------------------------------------------------------------------------
(* C37 *)

\* the number of entries of the owner lists of a set of addresses
RECURSIVE IndexedCount(_, _)
IndexedCount(st, addrs) ==
    IF addrs = {} THEN 0
    ELSE LET a == CHOOSE x \in addrs : TRUE
         IN Len(load_owner_nfts(st, a)) + IndexedCount(st, addrs \ {a})

\* C37: no owner list holds an id twice, and the owner lists together have
\* as many entries as nft:counter says tokens were minted.
C37_IndexedExactlyOnce ==
    /\ \A a \in Address : \A id \in NftId : Occurrences(state, a, id) <= 1
    /\ IndexedCount(state, Address) = get_next_nft_id(state)

\* a transfer_nft to the current owner has succeeded while that owner holds
\* two tokens: the token moved to the end of the list
C37_Witness ==
    /\ LastIsTransferNft
    /\ IsOk(last.res)
    /\ LastNftParams.to = last.tx.from
    /\ get_next_nft_id(state) = 2
    /\ Len(load_owner_nfts(state, last.tx.from)) = 2
    /\ load_owner_nfts(state, last.tx.from) # load_owner_nfts(last.pre, last.tx.from)

---------------------------------------------------------------------------
(* C38 *)

\* the last call is one of the four that take no nonce and no fee
LastIsFeeless ==
    LastIsMintTo \/ LastIsClaimArchon \/ LastIsMintDgen \/ LastIsTransferNft

\* the last transaction with another nonce and another fee
WithNonceFee(n, fee) == [last.tx EXCEPT !.nonce = n, !.fee = fee]

\* C38: mint_to, claim_archon, mint_dgen and transfer_nft give the same
\* result and the same State whatever the nonce and the fee of the
\* transaction; they change no nonce, and no balance except the one mint_to
\* credits with its amount; a mint_dgen transaction that succeeded succeeds
\* again when dispatched again, as long as the counter is below u64::MAX,
\* and mints the next id.
C38_NonceAndFeeUnread ==
    LastIsFeeless =>
        /\ \A n \in TxNonces \cup {U64Max} : \A fee \in TxFees \cup {U64Max} :
              dispatch_tx(WithNonceFee(n, fee), last.pre, overflow_checks)
                = Ret(last.res, state)
        /\ Nonces(state) = Nonces(last.pre)
        /\ ~LastIsMintTo => Balances(state) = Balances(last.pre)
        /\ (LastIsMintTo /\ IsOk(last.res)) =>
              Balances(state) = [Balances(last.pre) EXCEPT ![LastTo] = @ + LastAmount]
        /\ (LastIsMintDgen /\ IsOk(last.res) /\ get_next_nft_id(state) < U64Max) =>
              LET again == dispatch_tx(last.tx, state, overflow_checks) IN
              /\ IsOk(again.res)
              /\ load_nft(state, get_next_nft_id(state)) = None
              /\ load_nft(again.st, get_next_nft_id(state)) # None
              /\ get_next_nft_id(again.st) = get_next_nft_id(state) + 1

\* a mint_dgen with a nonce that is not the stored one and a fee the sender
\* cannot pay has succeeded for the second time
C38_Witness ==
    /\ LastIsMintDgen
    /\ IsOk(last.res)
    /\ last.tx.nonce # get_nonce(last.pre, last.tx.from)
    /\ last.tx.fee > get_balance(last.pre, last.tx.from)
    /\ get_next_nft_id(state) = 2
    /\ hist.minters[0] = hist.minters[1]

---------------------------------------------------------------------------
(* node.rs, rpc.rs: the three mutexes of Node and the operations that lock them *)

\* "Small starter allowance" of aeon_create in a dev build
STARTER_ALLOWANCE == 1

StarterMintTx(addr) ==
    Tx(ZERO_ADDRESS, 0, "bank_cgt", "mint_to", serialize_params(addr, STARTER_ALLOWANCE), 0)

SyzygyWeights == {2}

\* the threads that serve requests
LockThreads == {1, 2}

\* The lock requests of an operation, in program order: the mutex, and the
\* calls made while its guard lives. overflow_checks stands for the dev
\* profile, which also has debug_assertions.
chain_info_plan == <<[lock |-> "height", run |-> <<"read_height">>, arg |-> <<>>]>>
submit_transaction_plan == <<[lock |-> "mempool", run |-> <<"push">>, arg |-> <<>>]>>
with_state_plan(addr) == <<[lock |-> "state", run |-> <<"get_aeon_profile">>, arg |-> <<addr>>]>>
aeon_create_plan(addr, dev) ==
    chain_info_plan
    \o <<[lock |-> "state", run |-> <<"create_aeon_profile">>, arg |-> <<addr>>]>>
    \o (IF dev THEN <<[lock |-> "state", run |-> <<"mint_to">>, arg |-> <<addr>>]>> ELSE <<>>)
aeon_recordSyzygy_plan(addr, weight) ==
    <<[lock |-> "state",
       run |-> <<"add_syzygy_score">>
               \o (IF weight \div 2 > 0 THEN <<"add_gnosis_xp">> ELSE <<>>)
               \o <<"recompute_ascension", "update_badges", "get_aeon_profile">>,
       arg |-> <<addr, weight>>]>>

LockPlans ==
    {chain_info_plan, submit_transaction_plan, with_state_plan(USER_ADDRESS),
     aeon_create_plan(USER_ADDRESS, overflow_checks)}
    \cup {aeon_recordSyzygy_plan(USER_ADDRESS, w) : w \in SyzygyWeights}

\* the thread that holds a mutex
holder(n, lock) ==
    CASE lock = "state" -> n.state_lock
      [] lock = "mempool" -> n.mempool_lock
      [] lock = "height" -> n.height_lock

with_holder(n, lock, t) ==
    CASE lock = "state" -> [n EXCEPT !.state_lock = t]
      [] lock = "mempool" -> [n EXCEPT !.mempool_lock = t]
      [] lock = "height" -> [n EXCEPT !.height_lock = t]

\* one call under the guard: its result and the State it leaves
guarded_call(call, arg, st, oc) ==
    CASE call = "create_aeon_profile" ->
            LET r == create_aeon_profile(st, arg[1], "Test Aeon", None, 0)
            IN Ret(r.res, r.st)
      [] call = "mint_to" -> dispatch_tx(StarterMintTx(arg[1]), st, oc)
      [] call = "add_syzygy_score" -> add_syzygy_score(st, arg[1], arg[2])
      [] call = "add_gnosis_xp" -> add_gnosis_xp(st, arg[1], arg[2] \div 2)
      [] call = "recompute_ascension" -> recompute_ascension(st, arg[1], oc)
      [] call = "update_badges" -> update_badges(st, arg[1])
      [] OTHER -> Ret(Ok, st)

\* the lock requests left once the code under the guard has returned res:
\* aeon_create mints only after Ok(profile)
plan_after(plan, res) ==
    IF Head(plan).run = <<"create_aeon_profile">> /\ ~IsOk(res) THEN <<>> ELSE Tail(plan)

\* an operation of Node or an RPC handler starts: it requests its first lock
LockCall(t) ==
    \E plan \in LockPlans :
        /\ node.th[t].pc = "out"
        /\ plan = submit_transaction_plan =>
              Len(node.mempool)
                 + Cardinality({u \in Threads : node.th[u].todo = submit_transaction_plan})
                 < MaxSubmissions
        /\ NodeStep([node EXCEPT !.th[t] = [Outside EXCEPT !.pc = "want", !.todo = plan]])

\* mutex.lock() returns Ok(guard)
LockAcquire(t) ==
    LET lock == Head(node.th[t].todo).lock IN
    /\ node.th[t].pc = "want"
    /\ mutex_free(holder(node, lock))
    /\ lock \notin node.poisoned
    /\ NodeStep([with_holder(node, lock, t) EXCEPT !.th[t].pc = "has"])

\* mutex.lock() returns Err(PoisonError) and .expect("... mutex poisoned")
\* panics: the task of the request ends without the lock
LockPoisoned(t) ==
    LET lock == Head(node.th[t].todo).lock IN
    /\ node.th[t].pc = "want"
    /\ mutex_free(holder(node, lock))
    /\ lock \in node.poisoned
    /\ NodeStep([node EXCEPT !.th[t] = [Outside EXCEPT !.pc = "panicked"]])

\* the next call under the guard runs. A panic poisons the mutex while the
\* guard unwinds; an Err ends the closure (`?`); after the last call the
\* guard is dropped and the operation goes on to its next lock request.
LockRun(t) ==
    /\ node.th[t].pc = "has"
    /\ LET item == Head(node.th[t].todo)
           r == guarded_call(Head(item.run), item.arg, state, overflow_checks)
           returns == ~IsOk(r.res) \/ Tail(item.run) = <<>>
           rest == plan_after(node.th[t].todo, r.res)
           freed == with_holder(node, item.lock, NoThread)
       IN
       /\ state' = r.st
       /\ node' =
             IF r.res[1] = "Panic"
             THEN [freed EXCEPT !.poisoned = @ \cup {item.lock},
                                !.th[t] = [Outside EXCEPT !.pc = "panicked"]]
             ELSE IF ~returns
             THEN [node EXCEPT !.th[t].todo[1].run = Tail(@)]
             ELSE [freed EXCEPT
                     !.mempool = IF item.run = <<"push">> THEN mempool_push(@, NoTx) ELSE @,
                     !.th[t] = IF rest = <<>> THEN Outside
                               ELSE [Outside EXCEPT !.pc = "want", !.todo = rest]]
    /\ UNCHANGED <<last, hist, steps, overflow_checks>>

\* the server drops the panicked task; its worker takes the next request
TaskAborted(t) ==
    /\ node.th[t].pc = "panicked"
    /\ NodeStep([node EXCEPT !.th[t] = Outside])

NextLocks ==
    \/ \E t \in LockThreads : LockCall(t)
    \/ \E t \in LockThreads : LockAcquire(t)
    \/ \E t \in LockThreads : LockPoisoned(t)
    \/ \E t \in LockThreads : LockRun(t)
    \/ \E t \in LockThreads : TaskAborted(t)

SpecLocks == InitNode /\ [][NextLocks]_vars

\* Every thread keeps running, and a thread waiting for a mutex that is
\* released again and again gets it.
LocksFairness ==
    \A t \in LockThreads :
        /\ SF_vars(LockAcquire(t))
        /\ WF_vars(LockPoisoned(t))
        /\ WF_vars(LockRun(t))
        /\ WF_vars(TaskAborted(t))

FairSpecLocks == SpecLocks /\ LocksFairness

---------------------------------------------------------------------------
(* C39 *)

\* the mutexes thread t holds
HeldBy(t) == {lock \in {"state", "mempool", "height"} : holder(node, lock) = t}

Waiting(t) == node.th[t].pc = "want"
Holding(t) == node.th[t].pc = "has"

\* no thread holds two mutexes, and a thread that requests a mutex holds none
C39_OneLockAtATime ==
    \A t \in Threads :
        /\ Cardinality(HeldBy(t)) <= 1
        /\ Waiting(t) => HeldBy(t) = {}
        /\ Holding(t) => HeldBy(t) = {Head(node.th[t].todo).lock}
        /\ ~Holding(t) => HeldBy(t) = {}

\* every request of a mutex is granted
C39_LockObtained == \A t \in LockThreads : Waiting(t) ~> Holding(t)

C39_PoisonedRequest ==
    \E t \in Threads :
        /\ Waiting(t)
        /\ Head(node.th[t].todo).lock = "state"
        /\ "state" \in node.poisoned
        /\ node.state_lock = NoThread

\* in a build without overflow checks no closure panics and every request
\* is granted
C39_ReleaseBuild == [](~overflow_checks) => C39_LockObtained
====
